---- MODULE Spec2Model ----
(***************************************************************************)
(* Verification model of pdinklag/code: bitwise integer codecs (Binary,    *)
(* Unary, Elias-gamma, Elias-delta, Rice, Vbyte) over a BitSink/BitSource  *)
(* pair, and the Huffman tree with its construction, its serialization     *)
(* and the Huffman codec.                                                  *)
(*                                                                         *)
(* Unsigned integers of type uintmax_t are modelled with UINTMAX_BITS      *)
(* bits (arithmetic modulo 2^UINTMAX_BITS); characters are the 8-bit type  *)
(* char of HuffmanTree<char>, stored as their bit pattern 0..255, with     *)
(* the implementation-defined signedness of char held in char_signed.      *)
(* A bit stream is a sequence of 0/1 in the order the bits were written.   *)
(***************************************************************************)
EXTENDS Integers, Sequences, FiniteSets, TLC

VARIABLES
    char_signed,  \* whether char is a signed type on this platform
    input,        \* the input string (sequence of char bit patterns)
    pc,           \* position of the driving program
    it,           \* number of input characters consumed by the histogram scan
    c,            \* local c of HuffmanTree(It, It): the character read last
    histogram,    \* std::unordered_map<Char, size_t> histogram
    nodes,        \* nodes_ : the node arena (address 0 is the null pointer)
    queue,        \* the priority queue of node pointers
    r,            \* local r of the build loop
    l,            \* local l of the build loop
    root,         \* root_
    leaves,       \* leaves_ : character -> leaf pointer
    alphabet_size,\* local alphabet_size of the build loop
    enc_i,        \* number of input characters written with Huffman::encode
    first_codes,  \* codes of the tree built first, when a tree is built twice
    sink,         \* the bits written to the BitSink so far
    tree_bits,    \* sink.num_bits_written() right after tree.encode(sink)
    src_pos,      \* number of bits the BitSource has delivered
    d_nodes,      \* nodes_ of the deserialized tree
    d_root,       \* root_ of the deserialized tree
    d_leaves,     \* leaves_ of the deserialized tree
    decoded,      \* the characters returned by Huffman::decode so far
    jobs,         \* universal codecs: the (codec, parameter, universe, value) written
    marks,        \* universal codecs: num_bits_written() after each encode call
    results,      \* universal codecs: the values returned by the decode calls
    src_marks,    \* universal codecs: source position after each decode call
    coder,        \* single values: the codec and its parameter
    value_a,      \* single values: the value encoded on a sink of its own
    value_b,      \* single values: a second value, encoded on another sink
    word_a,       \* single values: the bits written for value_a
    word_b,       \* single values: the bits written for value_b
    read_a,       \* single values: what decoding word_a returned, and where it stopped
    calls,        \* the calls made so far on the object in use
    univ,         \* value objects: the Universe constructed
    range,        \* value objects: the Range
    count_,       \* value objects: count_ of the Counter
    obs           \* value objects: what the last read of the object returned

vars == <<char_signed, input, pc, it, c, histogram, nodes, queue, r, l, root,
          leaves, alphabet_size, enc_i, first_codes, sink, tree_bits, src_pos, d_nodes, d_root,
          d_leaves, decoded, jobs, marks, results, src_marks, coder, value_a, value_b,
          word_a, word_b, read_a, calls, univ, range, count_, obs>>

\* the state of the tree under construction
buildVars == <<it, c, histogram, nodes, queue, r, l, root, leaves, alphabet_size>>

\* the state of the encoder / decoder driving a built tree
coderVars == <<enc_i, sink, tree_bits, src_pos, d_nodes, d_root, d_leaves, decoded>>

codecVars == <<jobs, marks, results, src_marks>>

\* the state of the program that encodes single values
wordVars == <<coder, value_a, value_b, word_a, word_b, read_a>>

\* the state of the program that uses a Universe, a Range or a Counter
objVars == <<calls, univ, range, count_, obs>>

----------------------------------------------------------------------------
(* Bounds of the model *)

\* width of uintmax_t in the model (64 on the usual platforms)
UINTMAX_BITS == 12

\* longest input string given to HuffmanTree(It, It)
MaxLen == 4

\* largest number of occurrences of one character in an input given as runs
MaxFreq == 4

\* longest sequence of values written back-to-back with the universal codecs
MaxJobs == 2

\* the values 0..MaxValue are encoded one by one
MaxValue == 40

\* at most MaxCalls calls are made on a Range or on a Counter
MaxCalls == 4

(* Program constants *)

\* std::numeric_limits<unsigned char>::digits
CHAR_BITS == 8

----------------------------------------------------------------------------
(* Unsigned arithmetic *)

RECURSIVE Pow2(_)
Pow2(n) == IF n <= 0 THEN 1 ELSE 2 * Pow2(n - 1)

UINTMAX_MAX == Pow2(UINTMAX_BITS) - 1

\* conversion of an integer to uintmax_t
U(x) == x % Pow2(UINTMAX_BITS)

\* std::bit_width
RECURSIVE bit_width(_)
bit_width(x) == IF x <= 0 THEN 0 ELSE 1 + bit_width(x \div 2)

\* x << n and x >> n on uintmax_t (n < UINTMAX_BITS)
Shl(x, n) == U(x * Pow2(n))
Shr(x, n) == x \div Pow2(n)

\* bit i of x
BitOf(x, i) == (x \div Pow2(i)) % 2

\* F(e), with e evaluated once before F is applied to its value
Once(F(_), e) == CHOOSE res \in {F(x) : x \in {e}} : TRUE

\* the larger / smaller of two numbers (std::max, std::min)
Max2(a, b) == IF a >= b THEN a ELSE b
Min2(a, b) == IF a <= b THEN a ELSE b

\* a | b on unsigned integers
RECURSIVE BitOr(_, _)
BitOr(a, b) ==
    IF a = 0 THEN b
    ELSE IF b = 0 THEN a
    ELSE Max2(a % 2, b % 2) + 2 * BitOr(a \div 2, b \div 2)

\* internal::set_bit
set_bit(i) == Shl(1, i)

----------------------------------------------------------------------------
(* BitSink and BitSource: bits travel in the order written; a multi-bit    *)
(* write places bit 0 of the value first.                                  *)

\* sink.write(bool)
SinkWriteBit(s, b) == Append(s, b)

\* sink.write(bits, num): the low num bits, masked to the word width
SinkWrite(s, bits, num) ==
    s \o [i \in 1..num |-> IF i <= UINTMAX_BITS THEN BitOf(U(bits), i - 1) ELSE 0]

\* the bit the source delivers after pos bits (zeros once the stream ran out)
BitAt(bits, pos) == IF pos + 1 <= Len(bits) THEN bits[pos + 1] ELSE 0

\* src.read(): [val, pos]
SrcReadBit(bits, pos) == [val |-> BitAt(bits, pos), pos |-> pos + 1]

\* the value of the num bits after pos, the first bit being bit 0
RECURSIVE SrcValue(_, _, _)
SrcValue(bits, pos0, num) ==
    LET body(pos) ==
            IF num = 0 THEN 0
            ELSE BitAt(bits, pos) + 2 * SrcValue(bits, pos + 1, num - 1)
    IN  Once(body, pos0)

\* src.read(num): [val, pos]
SrcRead(bits, pos, num) ==
    [val |-> U(SrcValue(bits, pos, num)), pos |-> pos + num]

----------------------------------------------------------------------------
(* Range *)

\* Range()
Range_empty == [min |-> UINTMAX_MAX, max |-> 0]

\* faulty variant of Range::contain: the lower bound is left as it is
Range_contain_max_only(rg, value) == [min |-> rg.min, max |-> Max2(rg.max, U(value))]

\* Range::contain
Range_contain(rg, value) ==
    [min |-> Min2(rg.min, U(value)), max |-> Max2(rg.max, U(value))]

----------------------------------------------------------------------------
(* Universe *)

\* faulty variant of Universe::wc_entropy: the width of max, not of max - min
wc_entropy_of_max(min, max) == Max2(1, bit_width(max))

\* Universe::wc_entropy
wc_entropy(min, max) == Max2(1, bit_width(U(max - min)))

\* Universe(min, max)
Universe(min, max) == [min |-> min, max |-> max, entropy |-> wc_entropy(min, max)]

\* Universe(Range const&)
Universe_of_range(rg) == Universe(rg.min, rg.max)

Universe_binary == Universe(0, 1)
Universe_umax == Universe(0, UINTMAX_MAX)
Universe_at_least(min) == Universe(min, UINTMAX_MAX)
Universe_with_entropy(entropy) ==
    [min |-> 0, max |-> Shr(UINTMAX_MAX, UINTMAX_BITS - entropy), entropy |-> entropy]
Universe_with_delta(min, delta) == Universe(min, U(min + delta))

\* Universe::abs and Universe::rel
Universe_abs(u, rel) == U(u.min + rel)
Universe_rel(u, abs) == U(abs - u.min)

----------------------------------------------------------------------------
(* Binary *)

\* Binary::encode(sink, x, bits)
Binary_encode(s, x, bits) == SinkWrite(s, x, bits)

\* Binary::encode(sink, x, u)
Binary_encode_u(s, x, u) == Binary_encode(s, Universe_rel(u, x), u.entropy)

\* Binary::decode(src, bits)
Binary_decode(bits, pos, num) == SrcRead(bits, pos, num)

\* a decoder's result d with u.abs applied to its value
abs_result(u, d) == [val |-> Universe_abs(u, d.val), pos |-> d.pos]

\* faulty variant of Binary::decode(src, u): the value relative to u.min is returned
Binary_decode_u_rel(bits, pos, u) == Binary_decode(bits, pos, u.entropy)

\* Binary::decode(src, u)
Binary_decode_u(bits, pos, u) == abs_result(u, Binary_decode(bits, pos, u.entropy))

----------------------------------------------------------------------------
(* Unary *)

\* faulty variant of Unary::encode(sink, x): the closing zero-bit is not written
RECURSIVE Unary_encode_no_zero(_, _)
Unary_encode_no_zero(s, x) ==
    IF x >= UINTMAX_BITS
    THEN Unary_encode_no_zero(SinkWrite(s, UINTMAX_MAX, UINTMAX_BITS), x - UINTMAX_BITS)
    ELSE SinkWrite(s, UINTMAX_MAX, x)

\* Unary::encode(sink, x)
RECURSIVE Unary_encode(_, _)
Unary_encode(s, x) ==
    IF x >= UINTMAX_BITS
    THEN Unary_encode(SinkWrite(s, UINTMAX_MAX, UINTMAX_BITS), x - UINTMAX_BITS)
    ELSE SinkWriteBit(SinkWrite(s, UINTMAX_MAX, x), 0)

\* Unary::encode(sink, x, u)
Unary_encode_u(s, x, u) == Unary_encode(s, Universe_rel(u, x))

\* the loop of Unary::decode(src)
RECURSIVE Unary_decode_loop(_, _, _)
Unary_decode_loop(bits, pos0, x0) ==
    LET body(st) ==
            IF BitAt(bits, st.pos) = 1
            THEN Unary_decode_loop(bits, st.pos + 1, U(st.x + 1))
            ELSE [val |-> st.x, pos |-> st.pos + 1]
    IN  Once(body, [pos |-> pos0, x |-> x0])

\* faulty variant of Unary::decode(src): the count starts at 1
Unary_decode_from_1(bits, pos) == Unary_decode_loop(bits, pos, 1)

\* Unary::decode(src)
Unary_decode(bits, pos) == Unary_decode_loop(bits, pos, 0)

\* Unary::decode(src, u)
Unary_decode_u(bits, pos, u) == abs_result(u, Unary_decode(bits, pos))

----------------------------------------------------------------------------
(* Elias-gamma *)

\* assert(x > 0) of EliasGamma::encode(sink, x)
EliasGamma_encode_assert(x) == x > 0

\* faulty variant of EliasGamma::encode(sink, x): the leading 1-bit of x is
\* written as well
EliasGamma_encode_with_leading_bit(s, x) ==
    LET m  == bit_width(x) - 1
        s1 == Unary_encode(s, m)
    IN  Binary_encode(s1, x, m + 1)

\* EliasGamma::encode(sink, x), for x > 0
EliasGamma_encode(s, x) ==
    LET m  == bit_width(x) - 1
        s1 == Unary_encode(s, m)
    IN  IF m # 0 THEN Binary_encode(s1, x, m) ELSE s1

\* assert(u.rel(x) < UINTMAX_MAX) of EliasGamma::encode(sink, x, u)
EliasGamma_encode_u_assert(x, u) == Universe_rel(u, x) < UINTMAX_MAX

\* faulty variant of EliasGamma::encode(sink, x, u): the relative value itself
\* is encoded
EliasGamma_encode_u_no_increment(s, x, u) == EliasGamma_encode(s, Universe_rel(u, x))

\* EliasGamma::encode(sink, x, u)
EliasGamma_encode_u(s, x, u) == EliasGamma_encode(s, U(Universe_rel(u, x) + 1))

\* set_bit(m) | b, b the result of Binary::decode
with_leading_bit(m, b) == [val |-> BitOr(set_bit(m), b.val), pos |-> b.pos]

\* EliasGamma::decode(src) once m = Unary::decode(src) is read
EliasGamma_decode_tail(bits, m) ==
    IF m.val # 0
    THEN with_leading_bit(m.val, Binary_decode(bits, m.pos, m.val))
    ELSE [val |-> 1, pos |-> m.pos]

\* EliasGamma::decode(src)
EliasGamma_decode(bits, pos) == EliasGamma_decode_tail(bits, Unary_decode(bits, pos))

\* u.abs(d) - 1, d the result of EliasGamma::decode(src)
abs_minus_1(u, d) == [val |-> U(Universe_abs(u, d.val) - 1), pos |-> d.pos]

\* faulty variant of EliasGamma::decode(src, u): the 1 added by encode stays
EliasGamma_decode_u_no_decrement(bits, pos, u) ==
    abs_result(u, EliasGamma_decode(bits, pos))

\* EliasGamma::decode(src, u)
EliasGamma_decode_u(bits, pos, u) == abs_minus_1(u, EliasGamma_decode(bits, pos))

----------------------------------------------------------------------------
(* Elias-delta (code/elias_delta.hpp) *)

\* precondition of EliasDelta::encode(sink, x)
EliasDelta_encode_assert(x) == x > 0

\* EliasDelta::encode(sink, x), for x > 0: gamma(bitlen(x)), then the low
\* bitlen(x) - 1 bits of x
EliasDelta_encode(s, x) ==
    LET b  == bit_width(x)
        s1 == EliasGamma_encode(s, b)
    IN  IF b > 1 THEN Binary_encode(s1, x, b - 1) ELSE s1

\* precondition of EliasDelta::encode(sink, x, u)
EliasDelta_encode_u_assert(x, u) == Universe_rel(u, x) < UINTMAX_MAX

\* EliasDelta::encode(sink, x, u)
EliasDelta_encode_u(s, x, u) == EliasDelta_encode(s, U(Universe_rel(u, x) + 1))

\* EliasDelta::decode(src) once b = EliasGamma::decode(src) is read
EliasDelta_decode_tail(bits, b) ==
    IF b.val = 1 THEN [val |-> 1, pos |-> b.pos]
    ELSE with_leading_bit(b.val - 1, Binary_decode(bits, b.pos, b.val - 1))

\* EliasDelta::decode(src)
EliasDelta_decode(bits, pos) == EliasDelta_decode_tail(bits, EliasGamma_decode(bits, pos))

\* u.abs(d - 1), d the result of EliasDelta::decode(src)
abs_of_minus_1(u, d) == [val |-> Universe_abs(u, U(d.val - 1)), pos |-> d.pos]

\* EliasDelta::decode(src, u)
EliasDelta_decode_u(bits, pos, u) == abs_of_minus_1(u, EliasDelta_decode(bits, pos))

----------------------------------------------------------------------------
(* Rice *)

\* faulty variant of (x >> p) + 1: the quotient is passed as it is
Rice_quotient_plain(x, p) == Shr(x, p)

\* the argument Rice::encode passes to EliasGamma::encode ("must not pass zero")
Rice_quotient_plus_1(x, p) == U(Shr(x, p) + 1)

\* faulty variant of Rice::encode(sink, x, p): the remainder is written first
Rice_encode_remainder_first(s, x, p) ==
    EliasGamma_encode(Binary_encode(s, x, p), Rice_quotient_plus_1(x, p))

\* Rice::encode(sink, x, p)
Rice_encode(s, x, p) ==
    Binary_encode(EliasGamma_encode(s, Rice_quotient_plus_1(x, p)), x, p)

\* Rice::encode(sink, x, p, u)
Rice_encode_u(s, x, p, u) == Rice_encode(s, Universe_rel(u, x), p)

\* faulty variant of (q << p) | b: the quotient is not shifted
Rice_combine_no_shift(q, p, b) == [val |-> BitOr(q, b.val), pos |-> b.pos]

\* (q << p) | b, b the result of Binary::decode(src, p)
Rice_combine(q, p, b) == [val |-> BitOr(Shl(q, p), b.val), pos |-> b.pos]

\* Rice::decode(src, p) once g = EliasGamma::decode(src) is read
Rice_decode_tail(bits, g, p) ==
    Rice_combine(U(g.val - 1), p, Binary_decode(bits, g.pos, p))

\* Rice::decode(src, p)
Rice_decode(bits, pos, p) == Rice_decode_tail(bits, EliasGamma_decode(bits, pos), p)

\* Rice::decode(src, p, u)
Rice_decode_u(bits, pos, p, u) == abs_result(u, Rice_decode(bits, pos, p))

----------------------------------------------------------------------------
(* Vbyte *)

\* the loop of Vbyte::encode(sink, x, b), then the final block
RECURSIVE Vbyte_encode_loop(_, _, _, _)
Vbyte_encode_loop(s, x, bits, b) ==
    IF bits > b
    THEN Vbyte_encode_loop(SinkWrite(SinkWriteBit(s, 0), x, b), Shr(x, b), bits - b, b)
    ELSE SinkWrite(SinkWriteBit(s, 1), x, b)

\* faulty variant of Vbyte::encode(sink, x, b): the blocks of the whole word
\* are written, not only those up to the highest set bit
Vbyte_encode_whole_word(s, x, b) == Vbyte_encode_loop(s, x, UINTMAX_BITS, b)

\* Vbyte::encode(sink, x, b)
Vbyte_encode(s, x, b) == Vbyte_encode_loop(s, x, bit_width(x), b)

\* Vbyte::encode(sink, x, b, u)
Vbyte_encode_u(s, x, b, u) == Vbyte_encode(s, Universe_rel(u, x), b)

\* the loop of Vbyte::decode(src, b), then the final block
RECURSIVE Vbyte_decode_loop(_, _, _, _, _)
Vbyte_decode_loop(bits, pos0, x0, shift, b) ==
    LET body(st) ==
            LET flag == BitAt(bits, st.pos)
                x1   == BitOr(st.x, Shl(SrcValue(bits, st.pos + 1, b), shift))
            IN  IF flag = 0
                THEN Vbyte_decode_loop(bits, st.pos + 1 + b, x1, shift + b, b)
                ELSE [val |-> x1, pos |-> st.pos + 1 + b]
    IN  Once(body, [pos |-> pos0, x |-> x0])

\* Vbyte::decode(src, b)
Vbyte_decode(bits, pos, b) == Vbyte_decode_loop(bits, pos, 0, 0, b)

\* Vbyte::decode(src, b, u)
Vbyte_decode_u(bits, pos, b, u) == abs_result(u, Vbyte_decode(bits, pos, b))

----------------------------------------------------------------------------
(* Characters: HuffmanTree<char>.  A char is held as its bit pattern.      *)

\* the characters the inputs are drawn from, in ascending order of their patterns
AlphabetSeq == <<0, 97, 98, 255>>
Alphabet == {AlphabetSeq[i] : i \in DOMAIN AlphabetSeq}

CHAR_MOD == Pow2(CHAR_BITS)

\* the value of a char as the compiler sees it (negative for patterns with
\* the top bit set when char is signed)
CharValue(ch) == IF char_signed /\ ch >= CHAR_MOD \div 2 THEN ch - CHAR_MOD ELSE ch

\* conversion of an integer to Char / UChar
ToChar(x) == x % CHAR_MOD

\* conversion of a Char to uintmax_t
CharToUintmax(ch) == U(CharValue(ch))

\* ~c, converted back to Char
CharNot(ch) == ToChar(-CharValue(ch) - 1)

----------------------------------------------------------------------------
(* HuffmanCode *)

HuffmanCode(word, length) == [word |-> word, length |-> length]

----------------------------------------------------------------------------
(* HuffmanTree::Node.  The arena nodes_ is a function from the addresses   *)
(* of its nodes to the nodes; 0 is the null pointer.  The code compares    *)
(* addresses for equality only and never walks the arena in order, so a    *)
(* node's address is a name: the leaf the constructor creates for the      *)
(* character ch is named by ch, every other node by the size of the arena  *)
(* at its creation.                                                        *)

\* nodes_.size()
size(T) == Cardinality(DOMAIN T)

\* &nodes_.back() for the leaf the constructor creates for the character ch
leaf_address(ch) == ch + 1

\* &nodes_.back() for any other node appended to the arena T
next_address(T) == Pow2(CHAR_BITS) + size(T) + 1

\* Node(Char c, size_t freq)
Node_leaf(ch, freq) == [parent |-> 0, left |-> 0, right |-> 0, freq |-> freq, c |-> ch]

\* nodes_.emplace_back(c, freq), the new node at address a
emplace_leaf(T, a, ch, freq) == (a :> Node_leaf(ch, freq)) @@ T

\* faulty variant of nodes_.emplace_back(left, right): the children change sides
emplace_inner_swapped(T, left, right) ==
    LET this == next_address(T)
        T1   == [T EXCEPT ![left].parent = this]
        T2   == [T1 EXCEPT ![right].parent = this]
    IN  (this :> [parent |-> 0, left |-> right, right |-> left,
                  freq |-> U(T[left].freq + T[right].freq), c |-> 0]) @@ T2

\* faulty variant of nodes_.emplace_back(left, right): the frequency of the right
\* child is not added
emplace_inner_left_freq(T, left, right) ==
    LET this == next_address(T)
        T1   == [T EXCEPT ![left].parent = this]
        T2   == [T1 EXCEPT ![right].parent = this]
    IN  (this :> [parent |-> 0, left |-> left, right |-> right,
                  freq |-> T[left].freq, c |-> 0]) @@ T2

\* faulty variant of nodes_.emplace_back(left, right): the parent of the right
\* child is not set
emplace_inner_no_right_parent(T, left, right) ==
    LET this == next_address(T)
        T1   == [T EXCEPT ![left].parent = this]
    IN  (this :> [parent |-> 0, left |-> left, right |-> right,
                  freq |-> U(T[left].freq + T[right].freq), c |-> 0]) @@ T1

\* nodes_.emplace_back(left, right): Node(Node& left, Node& right) with set_inner,
\* which also sets the parent field of both children
emplace_inner(T, left, right) ==
    LET this == next_address(T)
        T1   == [T EXCEPT ![left].parent = this]
        T2   == [T1 EXCEPT ![right].parent = this]
    IN  (this :> [parent |-> 0, left |-> left, right |-> right,
                  freq |-> U(T[left].freq + T[right].freq), c |-> 0]) @@ T2

\* Node::is_leaf
is_leaf(T, v) == T[v].left = 0 /\ T[v].right = 0

\* faulty variant of Node::bit: 1 for a left child
Node_bit_left(T, v) == IF T[T[v].parent].left = v THEN 1 ELSE 0

\* Node::bit
Node_bit(T, v) == IF T[T[v].parent].right = v THEN 1 ELSE 0

\* the loop of Node::code
RECURSIVE Node_code_loop(_, _, _)
Node_code_loop(T, v, code) ==
    IF T[v].parent = 0 THEN code
    ELSE Node_code_loop(T, T[v].parent,
             HuffmanCode(BitOr(Shl(code.word, 1), Node_bit(T, v)), code.length + 1))

\* Node::code
Node_code(T, v) == Node_code_loop(T, v, HuffmanCode(0, 0))

\* faulty variant of HuffmanTree::operator[]: a code of one bit for a
\* character without a leaf
HuffmanTree_at_or_one_bit(T, lv, ch) ==
    IF ch \in DOMAIN lv THEN Node_code(T, lv[ch]) ELSE HuffmanCode(0, 1)

\* HuffmanTree::operator[]
HuffmanTree_at(T, lv, ch) ==
    IF ch \in DOMAIN lv THEN Node_code(T, lv[ch]) ELSE HuffmanCode(0, 0)

\* std::unordered_map::emplace: an existing key keeps its value
emplace(m, k, v) == IF k \in DOMAIN m THEN m ELSE (k :> v) @@ m

\* HuffmanTree::table for 8-bit characters: the entries of the array that are
\* assigned, table[(UChar)e.first] = e.second->code(); the other entries of
\* the array are not initialized
HuffmanTree_table(T, lv) == [uc \in {ToChar(ch) : ch \in DOMAIN lv} |-> Node_code(T, lv[uc])]

\* values an object that was never initialized, or memory outside the array,
\* may hold
IndeterminateCodes == {HuffmanCode(0, 0), HuffmanCode(0, 1), HuffmanCode(1, 1)}

\* table[x] for the std::array: the codes the read may deliver; an entry never
\* assigned is indeterminate, and so is a read beyond the end of the array
table_at(tb, x) ==
    IF x < CHAR_MOD /\ x \in DOMAIN tb THEN {tb[x]} ELSE IndeterminateCodes

----------------------------------------------------------------------------
(* HuffmanTree(It, It): construction *)

\* faulty variant of FreqCompare: on equal frequencies a leaf leaves the queue
\* before an inner node
FreqCompare_leaves_first(T, a, b) ==
    \/ T[a].freq > T[b].freq
    \/ (T[a].freq = T[b].freq /\ ~is_leaf(T, a) /\ is_leaf(T, b))
    \/ (T[a].freq = T[b].freq /\ is_leaf(T, a) /\ is_leaf(T, b)
            /\ CharValue(T[a].c) > CharValue(T[b].c))

\* faulty variant of FreqCompare: of two leaves of equal frequency the one with
\* the larger character leaves the queue first
FreqCompare_descending(T, a, b) ==
    \/ T[a].freq > T[b].freq
    \/ (T[a].freq = T[b].freq /\ is_leaf(T, a) /\ ~is_leaf(T, b))
    \/ (T[a].freq = T[b].freq /\ is_leaf(T, a) /\ is_leaf(T, b)
            /\ CharValue(T[a].c) < CharValue(T[b].c))

\* faulty variant of FreqCompare::operator(): nodes of equal frequency are not ordered
FreqCompare_by_frequency_only(T, a, b) == T[a].freq > T[b].freq

\* FreqCompare::operator(): a is ordered before b, so b leaves the queue first
FreqCompare(T, a, b) ==
    \/ T[a].freq > T[b].freq
    \/ (T[a].freq = T[b].freq /\ is_leaf(T, a) /\ ~is_leaf(T, b))
    \/ (T[a].freq = T[b].freq /\ is_leaf(T, a) /\ is_leaf(T, b)
            /\ CharValue(T[a].c) > CharValue(T[b].c))

\* queue.top(): an element no other element is ordered after; which one of several
\* such elements the heap delivers is not specified
queue_top(T, q) == {t \in q : \A e \in q : ~FreqCompare(T, t, e)}

\* the histogram after one more character
histogram_count(h, ch) ==
    IF ch \in DOMAIN h THEN [h EXCEPT ![ch] = U(@ + 1)] ELSE emplace(h, ch, 1)

\* faulty variant of the one-character fix-up: no character is added
histogram_fixup_none(h, ch) == h

\* faulty variant of the one-character fix-up: the new character counts once
histogram_fixup_counted(h, ch) ==
    IF Cardinality(DOMAIN h) = 1 THEN emplace(h, CharNot(ch), 1) ELSE h

\* the one-character fix-up
histogram_fixup(h, ch) ==
    IF Cardinality(DOMAIN h) = 1 THEN emplace(h, CharNot(ch), 0) ELSE h

----------------------------------------------------------------------------
(* HuffmanTree::encode *)

\* encode_tree(v, sink, uchars_ltr, range); st = [sink, uchars_ltr, range]
RECURSIVE encode_tree(_, _, _)
encode_tree(T, v, st) ==
    LET st1 == [st EXCEPT !.sink = SinkWriteBit(@, IF is_leaf(T, v) THEN 1 ELSE 0)]
    IN  IF is_leaf(T, v)
        THEN LET uc == ToChar(T[v].c)
             IN  [st1 EXCEPT !.uchars_ltr = Append(@, uc),
                             !.range = Range_contain(@, uc)]
        ELSE encode_tree(T, T[v].right, encode_tree(T, T[v].left, st1))

\* for(auto c : uchars_ltr) Binary::encode(sink, c, u)
RECURSIVE encode_chars(_, _, _, _)
encode_chars(s, uchars, i, u) ==
    IF i > Len(uchars) THEN s
    ELSE encode_chars(Binary_encode_u(s, uchars[i], u), uchars, i + 1, u)

\* the traversal of the tree at the start of HuffmanTree::encode
encode_gather(T, rt, s) ==
    encode_tree(T, rt, [sink |-> s, uchars_ltr |-> << >>, range |-> Range_empty])

\* the preconditions of the two EliasDelta::encode calls of HuffmanTree::encode
HuffmanTree_encode_assert(T, rt) ==
    rt # 0 =>
        LET u == Universe_of_range(encode_gather(T, rt, << >>).range)
        IN  /\ EliasDelta_encode_u_assert(u.min, Universe_umax)
            /\ EliasDelta_encode_u_assert(u.max, Universe_at_least(u.min))

\* faulty variant of HuffmanTree::encode(sink): max is written under umax()
HuffmanTree_encode_max_umax(T, rt, s) ==
    IF rt # 0
    THEN LET st == encode_gather(T, rt, s)
             u  == Universe_of_range(st.range)
             s1 == EliasDelta_encode_u(st.sink, u.min, Universe_umax)
             s2 == EliasDelta_encode_u(s1, u.max, Universe_umax)
         IN  encode_chars(s2, st.uchars_ltr, 1, u)
    ELSE SinkWriteBit(s, 1)

\* faulty variant of HuffmanTree::encode(sink): two bits are written for the
\* empty tree
HuffmanTree_encode_empty_two_bits(T, rt, s) ==
    IF rt # 0
    THEN LET st == encode_gather(T, rt, s)
             u  == Universe_of_range(st.range)
             s1 == EliasDelta_encode_u(st.sink, u.min, Universe_umax)
             s2 == EliasDelta_encode_u(s1, u.max, Universe_at_least(u.min))
         IN  encode_chars(s2, st.uchars_ltr, 1, u)
    ELSE SinkWriteBit(SinkWriteBit(s, 1), 1)

\* HuffmanTree::encode(sink)
HuffmanTree_encode(T, rt, s) ==
    IF rt # 0
    THEN LET st == encode_gather(T, rt, s)
             u  == Universe_of_range(st.range)
             s1 == EliasDelta_encode_u(st.sink, u.min, Universe_umax)
             s2 == EliasDelta_encode_u(s1, u.max, Universe_at_least(u.min))
         IN  encode_chars(s2, st.uchars_ltr, 1, u)
    ELSE SinkWriteBit(s, 1)

\* faulty variant of the reserve of the constructor: one slot per character
reserved_for_alphabet(h) == Cardinality(DOMAIN h)

\* the capacity of nodes_ after nodes_.reserve(2 * histogram.size())
reserved_for_histogram(h) == 2 * Cardinality(DOMAIN h)

\* the capacity of nodes_ after nodes_.reserve(topology.size())
reserved_for_topology(topology) == Len(topology)

----------------------------------------------------------------------------
(* HuffmanTree(Source&): deserialization *)

\* decode_topology(src, topology, alphabet_size); st = [pos, topology, alphabet_size]
RECURSIVE decode_topology(_, _)
decode_topology(bits, st0) ==
    LET body(st) ==
            LET b   == SrcReadBit(bits, st.pos)
                st1 == [st EXCEPT !.pos = b.pos, !.topology = Append(@, b.val)]
            IN  IF b.val = 1
                THEN [st1 EXCEPT !.alphabet_size = @ + 1]
                ELSE decode_topology(bits, decode_topology(bits, st1))
    IN  Once(body, st0)

\* decode_node(src, bits, u); st = [pos, it, nodes, leaves, v], v the node returned
RECURSIVE decode_node(_, _, _, _)
decode_node(bits, topology, u, st0) ==
    LET inner(sl, sr) ==
            [sr EXCEPT !.nodes = emplace_inner(sr.nodes, sl.v, sr.v),
                       !.v = next_address(sr.nodes)]
        right(sl) ==
            LET then(sr) == inner(sl, sr)
            IN  Once(then, decode_node(bits, topology, u, sl))
        leaf(a) ==
            LET ch == ToChar(a.d.val)
                v  == next_address(a.st.nodes)
            IN  [a.st EXCEPT !.pos = a.d.pos,
                             !.nodes = emplace_leaf(a.st.nodes, v, ch, 0),
                             !.leaves = emplace(@, ch, v), !.v = v]
        body(st) ==
            LET b   == topology[st.it]
                st1 == [st EXCEPT !.it = @ + 1]
            IN  IF b = 1
                THEN Once(leaf, [st |-> st1, d |-> Binary_decode_u(bits, st1.pos, u)])
                ELSE Once(right, decode_node(bits, topology, u, st1))
    IN  Once(body, st0)

\* HuffmanTree(Source&): [nodes, root, leaves, pos, topology]
HuffmanTree_decode(bits, pos) ==
    LET build(tp, u, upos) ==
            LET result(st) == [nodes |-> st.nodes, root |-> st.v, leaves |-> st.leaves,
                               pos |-> st.pos, topology |-> tp.topology]
            IN  Once(result, decode_node(bits, tp.topology, u,
                                 [pos |-> upos, it |-> 1, nodes |-> << >>,
                                  leaves |-> << >>, v |-> 0]))
        with_min(tp, min) ==
            LET with_max(max) == build(tp, Universe(min.val, max.val), max.pos)
            IN  Once(with_max,
                     EliasDelta_decode_u(bits, min.pos, Universe_at_least(min.val)))
        with_topology(tp) ==
            LET universe(min) == with_min(tp, min)
            IN  IF Len(tp.topology) > 1
                THEN Once(universe, EliasDelta_decode_u(bits, tp.pos, Universe_umax))
                ELSE [nodes |-> << >>, root |-> 0, leaves |-> << >>, pos |-> tp.pos,
                      topology |-> tp.topology]
    IN  Once(with_topology,
             decode_topology(bits, [pos |-> pos, topology |-> << >>, alphabet_size |-> 0]))

----------------------------------------------------------------------------
(* Huffman *)

\* the loop of Huffman::encode
RECURSIVE Huffman_encode_loop(_, _)
Huffman_encode_loop(s, code) ==
    IF code.length = 0 THEN s
    ELSE Huffman_encode_loop(SinkWriteBit(s, code.word % 2),
                             HuffmanCode(Shr(code.word, 1), code.length - 1))

\* faulty variant of Huffman::encode: the bits of the word are written from the
\* most significant one down
RECURSIVE Huffman_encode_msb_loop(_, _)
Huffman_encode_msb_loop(s, code) ==
    IF code.length = 0 THEN s
    ELSE Huffman_encode_msb_loop(SinkWriteBit(s, BitOf(code.word, code.length - 1)),
                                 HuffmanCode(code.word, code.length - 1))

Huffman_encode_msb_first(s, x, T, lv) ==
    Huffman_encode_msb_loop(s, HuffmanTree_at(T, lv, ToChar(x)))

\* Huffman::encode(sink, x, table) with a HuffmanTree as the table: x is converted
\* to Char by the tree's operator[]
Huffman_encode(s, x, T, lv) == Huffman_encode_loop(s, HuffmanTree_at(T, lv, ToChar(x)))

\* the loop of Huffman::decode
RECURSIVE Huffman_decode_loop(_, _, _, _)
Huffman_decode_loop(bits, pos, T, v0) ==
    LET body(v) ==
            IF is_leaf(T, v) THEN [val |-> CharToUintmax(T[v].c), pos |-> pos]
            ELSE LET b == SrcReadBit(bits, pos)
                 IN  Huffman_decode_loop(bits, pos + 1, T,
                                         IF b.val = 1 THEN T[v].right ELSE T[v].left)
    IN  Once(body, v0)

\* Huffman::decode(src, root)
Huffman_decode(bits, pos, T, rt) == Huffman_decode_loop(bits, pos, T, rt)

----------------------------------------------------------------------------
(* The Huffman program: construct a tree from the input, write the tree    *)
(* and the input to the sink, read both back (test roundtrip_tree).        *)

\* n copies of the character ch
Repeat(ch, n) == [i \in 1..n |-> ch]

\* the string with f[i] copies of the i-th character of the alphabet, in order
RECURSIVE Runs(_, _)
Runs(f, i) ==
    IF i > Len(AlphabetSeq) THEN << >>
    ELSE Repeat(AlphabetSeq[i], f[i]) \o Runs(f, i + 1)

\* the input strings: every string of up to MaxLen characters, and every string
\* of runs with up to MaxFreq occurrences of each character
Inputs ==
    UNION {[1..n -> Alphabet] : n \in 0..MaxLen}
        \cup {Runs(f, 1) : f \in [DOMAIN AlphabetSeq -> 0..MaxFreq]}

\* nothing constructed, written or read yet
Fresh ==
    /\ it = 0
    /\ c = 0
    /\ histogram = << >>
    /\ nodes = << >>
    /\ queue = {}
    /\ r = 0
    /\ l = 0
    /\ root = 0
    /\ leaves = << >>
    /\ alphabet_size = 0
    /\ enc_i = 0
    /\ first_codes = [built |-> FALSE, codes |-> << >>]
    /\ sink = << >>
    /\ tree_bits = 0
    /\ src_pos = 0
    /\ d_nodes = << >>
    /\ d_root = 0
    /\ d_leaves = << >>
    /\ decoded = << >>
    /\ jobs = << >>
    /\ marks = << >>
    /\ results = << >>
    /\ src_marks = << >>

\* no Universe, Range or Counter in use
NoObjects ==
    /\ calls = << >>
    /\ univ = [min |-> UINTMAX_MAX, max |-> 0, entropy |-> 0]
    /\ range = Range_empty
    /\ count_ = << >>
    /\ obs = << >>

\* no single value encoded
NoWord ==
    /\ coder = [name |-> "none", p |-> 0]
    /\ value_a = 0
    /\ value_b = 0
    /\ word_a = << >>
    /\ word_b = << >>
    /\ read_a = [val |-> 0, pos |-> 0]

\* the program about to construct a HuffmanTree from one of the inputs
Init ==
    /\ char_signed \in BOOLEAN
    /\ input \in Inputs
    /\ pc = "scan"
    /\ Fresh
    /\ NoObjects
    /\ NoWord

\* HuffmanTree(It, It) on an empty input
ConstructEmpty ==
    /\ pc = "scan"
    /\ Len(input) = 0
    /\ root' = 0
    /\ pc' = "built"
    /\ UNCHANGED <<char_signed, input, it, c, histogram, nodes, queue, r, l, leaves,
                   alphabet_size, first_codes>>
    /\ UNCHANGED coderVars
    /\ UNCHANGED codecVars
    /\ UNCHANGED wordVars
    /\ UNCHANGED objVars

\* one iteration of the histogram loop
Scan ==
    /\ pc = "scan"
    /\ it < Len(input)
    /\ c' = input[it + 1]
    /\ it' = it + 1
    /\ histogram' = histogram_count(histogram, input[it + 1])
    /\ UNCHANGED <<char_signed, input, pc, nodes, queue, r, l, root, leaves,
                   alphabet_size, first_codes>>
    /\ UNCHANGED coderVars
    /\ UNCHANGED codecVars
    /\ UNCHANGED wordVars
    /\ UNCHANGED objVars

\* the end of the histogram loop: the one-character fix-up
Fixup ==
    /\ pc = "scan"
    /\ Len(input) > 0
    /\ it = Len(input)
    /\ histogram' = histogram_fixup(histogram, c)
    /\ pc' = "enqueue"
    /\ UNCHANGED <<char_signed, input, it, c, nodes, queue, r, l, root, leaves,
                   alphabet_size, first_codes>>
    /\ UNCHANGED coderVars
    /\ UNCHANGED codecVars
    /\ UNCHANGED wordVars
    /\ UNCHANGED objVars

\* one iteration of for(auto e : histogram), in the map's unspecified order
EnqueueLeaf ==
    /\ pc = "enqueue"
    /\ \E e \in DOMAIN histogram \ DOMAIN leaves :
          /\ nodes' = emplace_leaf(nodes, leaf_address(e), e, histogram[e])
          /\ leaves' = emplace(leaves, e, leaf_address(e))
          /\ queue' = queue \cup {leaf_address(e)}
    /\ UNCHANGED <<char_signed, input, pc, it, c, histogram, r, l, root,
                   alphabet_size, first_codes>>
    /\ UNCHANGED coderVars
    /\ UNCHANGED codecVars
    /\ UNCHANGED wordVars
    /\ UNCHANGED objVars

\* auto alphabet_size = queue.size()
StartBuild ==
    /\ pc = "enqueue"
    /\ DOMAIN histogram \ DOMAIN leaves = {}
    /\ alphabet_size' = Cardinality(queue)
    /\ pc' = "build"
    /\ UNCHANGED <<char_signed, input, it, c, histogram, nodes, queue, r, l, root,
                   leaves, first_codes>>
    /\ UNCHANGED coderVars
    /\ UNCHANGED codecVars
    /\ UNCHANGED wordVars
    /\ UNCHANGED objVars

\* one iteration of the build loop
BuildStep ==
    /\ pc = "build"
    /\ alphabet_size > 1
    /\ \E rr \in queue_top(nodes, queue) :
       \E ll \in queue_top(nodes, queue \ {rr}) :
          /\ r' = rr
          /\ l' = ll
          /\ alphabet_size' = alphabet_size - 1
          /\ IF nodes[rr].freq <= nodes[ll].freq
             THEN /\ nodes' = emplace_inner(nodes, ll, rr)
                  /\ queue' = (queue \ {rr, ll}) \cup {next_address(nodes)}
                  /\ pc' = pc
             ELSE /\ pc' = "assert_failed"
                  /\ UNCHANGED <<nodes, queue>>
    /\ UNCHANGED <<char_signed, input, it, c, histogram, root, leaves, first_codes>>
    /\ UNCHANGED coderVars
    /\ UNCHANGED codecVars
    /\ UNCHANGED wordVars
    /\ UNCHANGED objVars

\* root_ = queue.top(); assert(queue.size() == 1)
SetRoot ==
    /\ pc = "build"
    /\ alphabet_size <= 1
    /\ root' \in queue_top(nodes, queue)
    /\ pc' = IF Cardinality(queue) = 1 THEN "built" ELSE "assert_failed"
    /\ UNCHANGED <<char_signed, input, it, c, histogram, nodes, queue, r, l, leaves,
                   alphabet_size, first_codes>>
    /\ UNCHANGED coderVars
    /\ UNCHANGED codecVars
    /\ UNCHANGED wordVars
    /\ UNCHANGED objVars

\* tree.encode(sink)
EncodeTree ==
    /\ pc = "built"
    /\ IF HuffmanTree_encode_assert(nodes, root)
       THEN /\ sink' = HuffmanTree_encode(nodes, root, sink)
            /\ tree_bits' = Len(sink')
            /\ pc' = "encode"
       ELSE /\ pc' = "assert_failed"
            /\ UNCHANGED <<sink, tree_bits>>
    /\ UNCHANGED <<char_signed, input, first_codes, enc_i, src_pos, d_nodes, d_root,
                   d_leaves, decoded>>
    /\ UNCHANGED buildVars
    /\ UNCHANGED codecVars
    /\ UNCHANGED wordVars
    /\ UNCHANGED objVars

\* Huffman::encode(sink, c, tree) for the next input character
EncodeSym ==
    /\ pc = "encode"
    /\ enc_i < Len(input)
    /\ sink' = Huffman_encode(sink, CharToUintmax(input[enc_i + 1]), nodes, leaves)
    /\ enc_i' = enc_i + 1
    /\ UNCHANGED <<char_signed, input, pc, first_codes, tree_bits, src_pos, d_nodes,
                   d_root, d_leaves, decoded>>
    /\ UNCHANGED buildVars
    /\ UNCHANGED codecVars
    /\ UNCHANGED wordVars
    /\ UNCHANGED objVars

\* Huffman::encode(sink, c, table) for the next input character, table being
\* tree.table(): c is converted to uintmax_t and indexes the array; an index
\* beyond the end of the array is undefined behaviour, which reads some value
\* or ends the program
EncodeSymTable ==
    /\ pc = "encode"
    /\ enc_i < Len(input)
    /\ LET x == CharToUintmax(input[enc_i + 1])
       IN  \/ /\ \E code \in table_at(HuffmanTree_table(nodes, leaves), x) :
                    sink' = Huffman_encode_loop(sink, code)
              /\ enc_i' = enc_i + 1
              /\ pc' = pc
           \/ /\ x >= CHAR_MOD
              /\ pc' = "crashed"
              /\ UNCHANGED <<sink, enc_i>>
    /\ UNCHANGED <<char_signed, input, first_codes, tree_bits, src_pos, d_nodes,
                   d_root, d_leaves, decoded>>
    /\ UNCHANGED buildVars
    /\ UNCHANGED codecVars
    /\ UNCHANGED wordVars
    /\ UNCHANGED objVars

\* HuffmanTree<char> tree(src) on the bits written
DecodeTree ==
    /\ pc = "encode"
    /\ enc_i = Len(input)
    /\ LET t == HuffmanTree_decode(sink, src_pos)
       IN  /\ d_nodes' = t.nodes
           /\ d_root' = t.root
           /\ d_leaves' = t.leaves
           /\ src_pos' = t.pos
    /\ pc' = "decode"
    /\ UNCHANGED <<char_signed, input, first_codes, enc_i, sink, tree_bits, decoded>>
    /\ UNCHANGED buildVars
    /\ UNCHANGED codecVars
    /\ UNCHANGED wordVars
    /\ UNCHANGED objVars

\* decoded.push_back((char)Huffman::decode(src, tree.root()))
DecodeSym ==
    /\ pc = "decode"
    /\ Len(decoded) < Len(input)
    /\ LET d == Huffman_decode(sink, src_pos, d_nodes, d_root)
       IN  /\ decoded' = Append(decoded, ToChar(d.val))
           /\ src_pos' = d.pos
    /\ UNCHANGED <<char_signed, input, pc, first_codes, enc_i, sink, tree_bits,
                   d_nodes, d_root, d_leaves>>
    /\ UNCHANGED buildVars
    /\ UNCHANGED codecVars
    /\ UNCHANGED wordVars
    /\ UNCHANGED objVars

Next ==
    \/ ConstructEmpty
    \/ Scan
    \/ Fixup
    \/ EnqueueLeaf
    \/ StartBuild
    \/ BuildStep
    \/ SetRoot
    \/ EncodeTree
    \/ EncodeSym
    \/ DecodeTree
    \/ DecodeSym

Spec == Init /\ [][Next]_vars

----------------------------------------------------------------------------
(* The tests of test_huffman.cpp: the same program on the test's input.    *)

\* "zyyxxxwwwwvvvvvuuuuuutttttttsssssss"
TestInput ==
    Repeat(122, 1) \o Repeat(121, 2) \o Repeat(120, 3) \o Repeat(119, 4)
        \o Repeat(118, 5) \o Repeat(117, 6) \o Repeat(116, 7) \o Repeat(115, 7)

InitTest ==
    /\ char_signed \in BOOLEAN
    /\ input = TestInput
    /\ pc = "scan"
    /\ Fresh
    /\ NoObjects
    /\ NoWord

NextTest ==
    \/ Scan
    \/ Fixup
    \/ EnqueueLeaf
    \/ StartBuild
    \/ BuildStep
    \/ SetRoot
    \/ EncodeTree
    \/ EncodeSym
    \/ DecodeTree
    \/ DecodeSym

SpecTest == InitTest /\ [][NextTest]_vars

----------------------------------------------------------------------------
(* A tree built twice: after the first tree is finished its codes are kept *)
(* and a second tree is constructed from an input with the same histogram. *)

\* tree[ch] for every character with a leaf
Codes == [ch \in DOMAIN leaves |-> HuffmanTree_at(nodes, leaves, ch)]

\* the number of occurrences of ch in str
Occurrences(str, ch) == Cardinality({i \in DOMAIN str : str[i] = ch})

SameHistogram(a, b) == \A ch \in Alphabet : Occurrences(a, ch) = Occurrences(b, ch)

\* a second HuffmanTree(It, It), on an input with the histogram of the first
Rebuild ==
    /\ pc = "built"
    /\ ~first_codes.built
    /\ first_codes' = [built |-> TRUE, codes |-> Codes]
    /\ input' \in {i \in Inputs : SameHistogram(i, input)}
    /\ pc' = "scan"
    /\ it' = 0
    /\ c' = 0
    /\ histogram' = << >>
    /\ nodes' = << >>
    /\ queue' = {}
    /\ r' = 0
    /\ l' = 0
    /\ root' = 0
    /\ leaves' = << >>
    /\ alphabet_size' = 0
    /\ UNCHANGED char_signed
    /\ UNCHANGED coderVars
    /\ UNCHANGED codecVars
    /\ UNCHANGED wordVars
    /\ UNCHANGED objVars

NextTwice ==
    \/ ConstructEmpty
    \/ Scan
    \/ Fixup
    \/ EnqueueLeaf
    \/ StartBuild
    \/ BuildStep
    \/ SetRoot
    \/ Rebuild

SpecTwice == Init /\ [][NextTwice]_vars

----------------------------------------------------------------------------
(* The universal codecs (test "Universal Codes", example_universal):       *)
(* values are written back-to-back on one sink, each by one codec under    *)
(* one universe, and then read from the matching source in the same order. *)

\* the values encoded: the small ones, and some around powers of two and at
\* the end of the range of uintmax_t
WordValues ==
    (0..MaxValue) \cup {63, 64, 95, 127, UINTMAX_MAX - 1, UINTMAX_MAX}

\* the codecs with their parameter (Rice: the exponent p, Vbyte: the block size b)
Codecs ==
    {[name |-> n, p |-> 0] : n \in {"Binary", "Unary", "EliasGamma", "EliasDelta"}}
        \cup {[name |-> "Rice", p |-> p] : p \in {0, 3}}
        \cup {[name |-> "Vbyte", p |-> b] : b \in {1, 3}}

\* the universes of the values, and the values written under a universe
Universes == {Universe_umax, Universe(3, 40), Universe_at_least(UINTMAX_MAX - 2)}
Values(u) == {u.min, u.max} \cup {x \in {29} : u.min = 3}

\* one encode call: the codec, the universe and the value; a unary code has
\* as many bits as the value, and the values written in unary are small
Jobs ==
    {j \in [codec : Codecs, u : Universes, x : UNION {Values(u) : u \in Universes}] :
        /\ j.x \in Values(j.u)
        /\ j.codec.name = "Unary" => Universe_rel(j.u, j.x) <= 4 * UINTMAX_BITS}

\* the assertions on the way of coder.encode(sink, x, u)
coder_encode_assert(j) ==
    CASE j.codec.name = "EliasGamma" ->
            /\ EliasGamma_encode_u_assert(j.x, j.u)
            /\ EliasGamma_encode_assert(U(Universe_rel(j.u, j.x) + 1))
      [] j.codec.name = "EliasDelta" ->
            /\ EliasDelta_encode_u_assert(j.x, j.u)
            /\ EliasDelta_encode_assert(U(Universe_rel(j.u, j.x) + 1))
      [] j.codec.name = "Rice" ->
            EliasGamma_encode_assert(Rice_quotient_plus_1(Universe_rel(j.u, j.x), j.codec.p))
      [] OTHER -> TRUE

\* coder.encode(sink, x, u)
coder_encode(s, j) ==
    CASE j.codec.name = "Binary"     -> Binary_encode_u(s, j.x, j.u)
      [] j.codec.name = "Unary"      -> Unary_encode_u(s, j.x, j.u)
      [] j.codec.name = "EliasGamma" -> EliasGamma_encode_u(s, j.x, j.u)
      [] j.codec.name = "EliasDelta" -> EliasDelta_encode_u(s, j.x, j.u)
      [] j.codec.name = "Rice"       -> Rice_encode_u(s, j.x, j.codec.p, j.u)
      [] j.codec.name = "Vbyte"      -> Vbyte_encode_u(s, j.x, j.codec.p, j.u)

\* decoder.decode(src, u)
coder_decode(bits, pos, j) ==
    CASE j.codec.name = "Binary"     -> Binary_decode_u(bits, pos, j.u)
      [] j.codec.name = "Unary"      -> Unary_decode_u(bits, pos, j.u)
      [] j.codec.name = "EliasGamma" -> EliasGamma_decode_u(bits, pos, j.u)
      [] j.codec.name = "EliasDelta" -> EliasDelta_decode_u(bits, pos, j.u)
      [] j.codec.name = "Rice"       -> Rice_decode_u(bits, pos, j.codec.p, j.u)
      [] j.codec.name = "Vbyte"      -> Vbyte_decode_u(bits, pos, j.codec.p, j.u)

\* the program about to write values; it handles unsigned integers only, so
\* the signedness of char plays no part in it
InitCodec ==
    /\ char_signed = FALSE
    /\ input = << >>
    /\ pc = "codec_write"
    /\ Fresh
    /\ NoObjects
    /\ NoWord

\* coder.encode(sink, x, u) for one more value, one of the calls of JobSet, as
\* long as fewer than n values are written; a failed assertion aborts
CodecEncodeFrom(JobSet, n) ==
    /\ pc = "codec_write"
    /\ Len(jobs) < n
    /\ \E j \in JobSet :
          /\ jobs' = Append(jobs, j)
          /\ IF coder_encode_assert(j)
             THEN /\ sink' = coder_encode(sink, j)
                  /\ marks' = Append(marks, Len(sink'))
                  /\ pc' = pc
             ELSE /\ pc' = "assert_failed"
                  /\ UNCHANGED <<sink, marks>>
    /\ UNCHANGED <<char_signed, input, first_codes, enc_i, tree_bits, src_pos, d_nodes,
                   d_root, d_leaves, decoded, results, src_marks>>
    /\ UNCHANGED buildVars
    /\ UNCHANGED wordVars
    /\ UNCHANGED objVars

\* coder.encode(sink, x, u) for one more value of a sequence
CodecEncode == CodecEncodeFrom(Jobs, MaxJobs)

\* the source is opened on the bits written
CodecStartRead ==
    /\ pc = "codec_write"
    /\ pc' = "codec_read"
    /\ UNCHANGED <<char_signed, input, first_codes>>
    /\ UNCHANGED buildVars
    /\ UNCHANGED coderVars
    /\ UNCHANGED codecVars
    /\ UNCHANGED wordVars
    /\ UNCHANGED objVars

\* decoder.decode(src, u) for the next value
CodecDecode ==
    /\ pc = "codec_read"
    /\ Len(results) < Len(jobs)
    /\ LET d == coder_decode(sink, src_pos, jobs[Len(results) + 1])
       IN  /\ results' = Append(results, d.val)
           /\ src_pos' = d.pos
           /\ src_marks' = Append(src_marks, d.pos)
    /\ UNCHANGED <<char_signed, input, pc, first_codes, enc_i, sink, tree_bits, d_nodes,
                   d_root, d_leaves, decoded, jobs, marks>>
    /\ UNCHANGED buildVars
    /\ UNCHANGED wordVars
    /\ UNCHANGED objVars

NextCodec ==
    \/ CodecEncode
    \/ CodecStartRead
    \/ CodecDecode

SpecCodec == InitCodec /\ [][NextCodec]_vars

----------------------------------------------------------------------------
(* Elias-gamma under a universe: one value is written with                  *)
(* EliasGamma::encode(sink, x, u) and read with EliasGamma::decode(src, u). *)

\* the universes, and the values written: any value, inside the universe or not
GammaUniverses ==
    {Universe_umax, Universe(3, 40), Universe(10, 20), Universe_at_least(UINTMAX_MAX - 2)}

GammaJobs ==
    [codec : {[name |-> "EliasGamma", p |-> 0]}, u : GammaUniverses, x : WordValues]

\* EliasGamma::encode(sink, x, u) for a single value
GammaEncode == CodecEncodeFrom(GammaJobs, 1)

NextGamma ==
    \/ GammaEncode
    \/ CodecStartRead
    \/ CodecDecode

SpecGamma == InitCodec /\ [][NextGamma]_vars

----------------------------------------------------------------------------
(* Binary under a universe: one value of the universe [a, b] is written     *)
(* with Binary::encode(sink, x, u) and read with Binary::decode(src, u).    *)

\* the universes [a, b] and the values of [a, b] written
BinaryJobs ==
    {j \in [codec : {[name |-> "Binary", p |-> 0]},
            u : {Universe(a, b) : a, b \in {0, 3, 4, 5, 7, 8, 11, 40, UINTMAX_MAX - 2, UINTMAX_MAX}},
            x : WordValues \cup {3, 4, 5, 7, 8, 11, UINTMAX_MAX - 2}] :
        j.u.min <= j.x /\ j.x <= j.u.max}

\* Binary::encode(sink, x, u) for a single value
BinaryEncode == CodecEncodeFrom(BinaryJobs, 1)

NextBinary ==
    \/ BinaryEncode
    \/ CodecStartRead
    \/ CodecDecode

SpecBinary == InitCodec /\ [][NextBinary]_vars

----------------------------------------------------------------------------
(* Single values (tests "encode" and "decode" of test_rice.cpp,             *)
(* test_unary.cpp, test_elias_gamma.cpp): a value is encoded on a sink of   *)
(* its own, without a universe, and decoded from the bits written.  A       *)
(* second value is encoded by the same codec on another sink.               *)

\* the codecs with their parameter (Binary: the number of bits, Rice: the
\* exponent p, Vbyte: the block size b)
Coders ==
    {[name |-> n, p |-> 0] : n \in {"Unary", "EliasGamma", "EliasDelta"}}
        \cup {[name |-> "Binary", p |-> w] : w \in {1, 5, UINTMAX_BITS}}
        \cup {[name |-> "Rice", p |-> p] : p \in {0, 1, 3, 5, UINTMAX_BITS - 1}}
        \cup {[name |-> "Vbyte", p |-> b] : b \in {1, 3, 5, UINTMAX_BITS}}


\* the assertions on the way of coder.encode(sink, x)
word_encode_assert(cd, x) ==
    CASE cd.name = "EliasGamma" -> EliasGamma_encode_assert(x)
      [] cd.name = "EliasDelta" -> EliasDelta_encode_assert(x)
      [] cd.name = "Rice"       -> EliasGamma_encode_assert(Rice_quotient_plus_1(x, cd.p))
      [] OTHER -> TRUE

\* coder.encode(sink, x)
word_encode(s, cd, x) ==
    CASE cd.name = "Binary"     -> Binary_encode(s, x, cd.p)
      [] cd.name = "Unary"      -> Unary_encode(s, x)
      [] cd.name = "EliasGamma" -> EliasGamma_encode(s, x)
      [] cd.name = "EliasDelta" -> EliasDelta_encode(s, x)
      [] cd.name = "Rice"       -> Rice_encode(s, x, cd.p)
      [] cd.name = "Vbyte"      -> Vbyte_encode(s, x, cd.p)

\* coder.decode(src)
word_decode(bits, pos, cd) ==
    CASE cd.name = "Binary"     -> Binary_decode(bits, pos, cd.p)
      [] cd.name = "Unary"      -> Unary_decode(bits, pos)
      [] cd.name = "EliasGamma" -> EliasGamma_decode(bits, pos)
      [] cd.name = "EliasDelta" -> EliasDelta_decode(bits, pos)
      [] cd.name = "Rice"       -> Rice_decode(bits, pos, cd.p)
      [] cd.name = "Vbyte"      -> Vbyte_decode(bits, pos, cd.p)

\* the program about to encode value_a and value_b; a unary code has as many
\* bits as the value, and the values written in unary are small; the second
\* value is one the codec accepts
InitWord ==
    /\ char_signed = FALSE
    /\ input = << >>
    /\ pc = "word_write"
    /\ Fresh
    /\ NoObjects
    /\ coder \in Coders
    /\ value_a \in WordValues
    /\ value_b \in WordValues
    /\ coder.name = "Unary" => (value_a <= 4 * UINTMAX_BITS /\ value_b <= 4 * UINTMAX_BITS)
    /\ word_encode_assert(coder, value_b)
    /\ word_a = << >>
    /\ word_b = << >>
    /\ read_a = [val |-> 0, pos |-> 0]

\* coder.encode(sink, x) for both values, each on an empty sink; a failed
\* assertion aborts
WordEncode ==
    /\ pc = "word_write"
    /\ IF word_encode_assert(coder, value_a)
       THEN /\ word_a' = word_encode(<< >>, coder, value_a)
            /\ word_b' = word_encode(<< >>, coder, value_b)
            /\ pc' = "word_read"
       ELSE /\ pc' = "assert_failed"
            /\ UNCHANGED <<word_a, word_b>>
    /\ UNCHANGED <<char_signed, input, first_codes, coder, value_a, value_b, read_a>>
    /\ UNCHANGED buildVars
    /\ UNCHANGED coderVars
    /\ UNCHANGED codecVars
    /\ UNCHANGED objVars

\* coder.decode(src) on the bits written for value_a
WordDecode ==
    /\ pc = "word_read"
    /\ read_a' = word_decode(word_a, 0, coder)
    /\ pc' = "word_done"
    /\ UNCHANGED <<char_signed, input, first_codes, coder, value_a, value_b, word_a, word_b>>
    /\ UNCHANGED buildVars
    /\ UNCHANGED coderVars
    /\ UNCHANGED codecVars
    /\ UNCHANGED objVars

NextWord ==
    \/ WordEncode
    \/ WordDecode

SpecWord == InitWord /\ [][NextWord]_vars

----------------------------------------------------------------------------
(* Test roundtrip_table: the Huffman program with the input written through *)
(* tree.table() instead of the tree.                                        *)

NextTable ==
    \/ ConstructEmpty
    \/ Scan
    \/ Fixup
    \/ EnqueueLeaf
    \/ StartBuild
    \/ BuildStep
    \/ SetRoot
    \/ EncodeTree
    \/ EncodeSymTable
    \/ DecodeTree
    \/ DecodeSym

SpecTable == Init /\ [][NextTable]_vars

----------------------------------------------------------------------------
\* either program: the Huffman program on an input, or a codec on single values
InitEither == Init \/ InitWord

NextEither ==
    \/ ConstructEmpty
    \/ Scan
    \/ Fixup
    \/ EnqueueLeaf
    \/ StartBuild
    \/ BuildStep
    \/ SetRoot
    \/ EncodeTree
    \/ EncodeSym
    \/ DecodeTree
    \/ DecodeSym
    \/ WordEncode
    \/ WordDecode

SpecEither == InitEither /\ [][NextEither]_vars

----------------------------------------------------------------------------
(* Universe, Range and Counter on their own: a Universe is constructed by  *)
(* one of its constructors or factory functions; a Range, or a Counter,    *)
(* receives a sequence of calls.  size_t has the width of uintmax_t.       *)

\* Universe::of<Int>() for an unsigned type Int of the given number of digits
Universe_of(digits) == [min |-> 0, max |-> Pow2(digits) - 1, entropy |-> digits]

\* Universe::with_entropy(entropy): the shift UINTMAX_MAX >> (digits - entropy)
\* is undefined when its amount is not below the width; the hardware then
\* either masks the amount or shifts every bit out
Universe_with_entropy_results(entropy) ==
    IF U(UINTMAX_BITS - entropy) < UINTMAX_BITS
    THEN {Universe_with_entropy(entropy)}
    ELSE {[min |-> 0, max |-> m, entropy |-> entropy] : m \in {UINTMAX_MAX, 0}}

\* the constructor and factory calls made
UniverseCalls ==
    {[f |-> "Universe", a |-> a, b |-> b] : a, b \in WordValues}
        \cup {[f |-> "binary", a |-> 0, b |-> 0], [f |-> "umax", a |-> 0, b |-> 0]}
        \cup {[f |-> "at_least", a |-> a, b |-> 0] : a \in WordValues}
        \cup {[f |-> "of", a |-> d, b |-> 0] :
                 d \in {UINTMAX_BITS \div 4, UINTMAX_BITS \div 2, UINTMAX_BITS}}
        \cup {[f |-> "with_entropy", a |-> k, b |-> 0] : k \in 0..UINTMAX_BITS}

\* the universes a call can return
Universe_results(call) ==
    CASE call.f = "Universe"     -> {Universe(call.a, call.b)}
      [] call.f = "binary"       -> {Universe_binary}
      [] call.f = "umax"         -> {Universe_umax}
      [] call.f = "at_least"     -> {Universe_at_least(call.a)}
      [] call.f = "of"           -> {Universe_of(call.a)}
      [] call.f = "with_entropy" -> Universe_with_entropy_results(call.a)

\* Counter::set(c, count)
Counter_set(m, cc, count) == [x \in DOMAIN m \cup {cc} |-> IF x = cc THEN count ELSE m[x]]

\* faulty variant of Counter::count(c, times): the count is replaced
Counter_count_replace(m, cc, times) == Counter_set(m, cc, times)

\* Counter::count(c, times)
Counter_count(m, cc, times) ==
    IF cc \in DOMAIN m
    THEN [m EXCEPT ![cc] = U(@ + times)]
    ELSE emplace(m, cc, times)

\* Counter::operator[](c)
Counter_at(m, cc) == IF cc \in DOMAIN m THEN m[cc] ELSE 0

\* Counter::contains(c)
Counter_contains(m, cc) == cc \in DOMAIN m

\* Counter::size()
Counter_size(m) == Cardinality(DOMAIN m)

\* the program about to use a Universe, a Range or a Counter
InitObjects ==
    /\ char_signed = FALSE
    /\ input = << >>
    /\ pc \in {"universe", "range", "counter"}
    /\ Fresh
    /\ NoObjects
    /\ NoWord

\* a Universe is constructed
UniverseConstruct ==
    /\ pc = "universe"
    /\ \E call \in UniverseCalls : \E u \in Universe_results(call) :
          /\ univ' = u
          /\ calls' = <<call>>
    /\ pc' = "universe_done"
    /\ UNCHANGED <<char_signed, input, first_codes, range, count_, obs>>
    /\ UNCHANGED buildVars
    /\ UNCHANGED coderVars
    /\ UNCHANGED codecVars
    /\ UNCHANGED wordVars

\* range.contain(value)
RangeContain ==
    /\ pc = "range"
    /\ Len(calls) < MaxCalls
    /\ \E value \in {0, 1, 5, UINTMAX_MAX - 1, UINTMAX_MAX} :
          /\ range' = Range_contain(range, value)
          /\ calls' = Append(calls, [f |-> "contain", a |-> value, b |-> 0])
    /\ UNCHANGED <<char_signed, input, pc, first_codes, univ, count_, obs>>
    /\ UNCHANGED buildVars
    /\ UNCHANGED coderVars
    /\ UNCHANGED codecVars
    /\ UNCHANGED wordVars

\* range.min() and range.max()
RangeRead ==
    /\ pc = "range"
    /\ Len(calls) < MaxCalls
    /\ obs' = [min |-> range.min, max |-> range.max]
    /\ calls' = Append(calls, [f |-> "read", a |-> 0, b |-> 0])
    /\ UNCHANGED <<char_signed, input, pc, first_codes, univ, range, count_>>
    /\ UNCHANGED buildVars
    /\ UNCHANGED coderVars
    /\ UNCHANGED codecVars
    /\ UNCHANGED wordVars

\* counter.count(c, times); counter += c counts once
CounterCount ==
    /\ pc = "counter"
    /\ Len(calls) < MaxCalls
    /\ \E cc \in {97, 98} : \E times \in {1, 2} :
          /\ count_' = Counter_count(count_, cc, times)
          /\ calls' = Append(calls, [f |-> "count", a |-> cc, b |-> times])
    /\ UNCHANGED <<char_signed, input, pc, first_codes, univ, range, obs>>
    /\ UNCHANGED buildVars
    /\ UNCHANGED coderVars
    /\ UNCHANGED codecVars
    /\ UNCHANGED wordVars

\* counter.set(c, count)
CounterSet ==
    /\ pc = "counter"
    /\ Len(calls) < MaxCalls
    /\ \E cc \in {97, 98} : \E count \in {0, UINTMAX_MAX} :
          /\ count_' = Counter_set(count_, cc, count)
          /\ calls' = Append(calls, [f |-> "set", a |-> cc, b |-> count])
    /\ UNCHANGED <<char_signed, input, pc, first_codes, univ, range, obs>>
    /\ UNCHANGED buildVars
    /\ UNCHANGED coderVars
    /\ UNCHANGED codecVars
    /\ UNCHANGED wordVars

\* counter[c], counter.contains(c) and counter.size()
CounterRead ==
    /\ pc = "counter"
    /\ Len(calls) < MaxCalls
    /\ \E cc \in {97, 98} :
          /\ obs' = [c |-> cc, at |-> Counter_at(count_, cc),
                     contains |-> Counter_contains(count_, cc),
                     size |-> Counter_size(count_)]
          /\ calls' = Append(calls, [f |-> "read", a |-> cc, b |-> 0])
    /\ UNCHANGED <<char_signed, input, pc, first_codes, univ, range, count_>>
    /\ UNCHANGED buildVars
    /\ UNCHANGED coderVars
    /\ UNCHANGED codecVars
    /\ UNCHANGED wordVars

NextObjects ==
    \/ UniverseConstruct
    \/ RangeContain
    \/ RangeRead
    \/ CounterCount
    \/ CounterSet
    \/ CounterRead

SpecObjects == InitObjects /\ [][NextObjects]_vars

----------------------------------------------------------------------------
(* The Huffman program, ending with one call of Huffman::encode for any     *)
(* character, one that has a leaf in the tree or not.                       *)

\* Huffman::encode(sink, c, tree) for any character c: the call is recorded
\* with the sink as it was before
EncodeAny ==
    /\ pc = "encode"
    /\ \E ch \in Alphabet :
          /\ sink' = Huffman_encode(sink, CharToUintmax(ch), nodes, leaves)
          /\ calls' = <<[f |-> "encode", a |-> ch, b |-> sink]>>
    /\ pc' = "encoded_any"
    /\ UNCHANGED <<char_signed, input, first_codes, enc_i, tree_bits, src_pos, d_nodes,
                   d_root, d_leaves, decoded, univ, range, count_, obs>>
    /\ UNCHANGED buildVars
    /\ UNCHANGED codecVars
    /\ UNCHANGED wordVars

NextAny ==
    \/ ConstructEmpty
    \/ Scan
    \/ Fixup
    \/ EnqueueLeaf
    \/ StartBuild
    \/ BuildStep
    \/ SetRoot
    \/ EncodeTree
    \/ EncodeSym
    \/ EncodeAny

SpecAny == Init /\ [][NextAny]_vars

----------------------------------------------------------------------------
(* Properties *)

\* the leaves of the tree T
Leaves(T) == {v \in DOMAIN T : T[v].left = 0 /\ T[v].right = 0}

\* the number of edges from the root down to v
RECURSIVE Depth(_, _)
Depth(T, v) == IF T[v].parent = 0 THEN 0 ELSE 1 + Depth(T, T[v].parent)

\* the nodes below v in pre-order: a node, its left subtree, its right subtree
RECURSIVE PreOrder(_, _)
PreOrder(T, v) ==
    IF T[v].left = 0 /\ T[v].right = 0
    THEN << [leaf |-> TRUE, c |-> T[v].c] >>
    ELSE << [leaf |-> FALSE, c |-> 0] >> \o PreOrder(T, T[v].left) \o PreOrder(T, T[v].right)

\* the node reached from v over length edges, the i-th edge going right iff bit
\* i - 1 of word is 1; 0 when the path leaves the tree
RECURSIVE Descend(_, _, _, _)
Descend(T, v, word, length) ==
    IF length = 0 THEN v
    ELSE IF v = 0 \/ (T[v].left = 0 /\ T[v].right = 0) THEN 0
    ELSE Descend(T, IF word % 2 = 1 THEN T[v].right ELSE T[v].left,
                 word \div 2, length - 1)

\* the sum of f over the set S
RECURSIVE Sum(_, _)
Sum(f, S) ==
    IF S = {} THEN 0
    ELSE LET x == CHOOSE y \in S : TRUE IN f[x] + Sum(f, S \ {x})

MinOf(S) == CHOOSE m \in S : \A k \in S : m <= k
MaxOf(S) == CHOOSE m \in S : \A k \in S : m >= k

RECURSIVE Flatten(_)
Flatten(ss) == IF ss = << >> THEN << >> ELSE Head(ss) \o Flatten(Tail(ss))

Reverse(seq) == [i \in DOMAIN seq |-> seq[Len(seq) + 1 - i]]

\* a tree has been constructed from a non-empty input
Built == pc \in {"built", "encode", "decode"} /\ root # 0

\* the tree written has been read back
Deserialized == pc = "decode" /\ root # 0

\* the sum of the codeword lengths of the first n input characters
RECURSIVE CodeBits(_)
CodeBits(n) ==
    IF n = 0 THEN 0
    ELSE HuffmanTree_at(nodes, leaves, input[n]).length + CodeBits(n - 1)

\* C1: for a non-empty input, the tree and the input written with
\* HuffmanTree::encode and Huffman::encode are read back without a failed
\* assertion; the deserializer consumes exactly the bits of the tree (as long as
\* no character is decoded the source stands at the end of the tree), every
\* Huffman::decode returns the next input character and consumes as many bits as
\* that character's codeword is long, so at the end the input is returned and
\* the source stands at the end of the bits written.
C1_HuffmanRoundtrip ==
    /\ Len(input) > 0 => pc # "assert_failed"
    /\ Deserialized =>
          /\ decoded = SubSeq(input, 1, Len(decoded))
          /\ src_pos = tree_bits + CodeBits(Len(decoded))
          /\ Len(decoded) = Len(input) => src_pos = Len(sink)

C1_Witness ==
    /\ Deserialized
    /\ decoded = input
    /\ Cardinality({input[i] : i \in DOMAIN input}) >= 3
    /\ \E i \in DOMAIN input : HuffmanTree_at(nodes, leaves, input[i]).length = 1
    /\ \E i \in DOMAIN input : HuffmanTree_at(nodes, leaves, input[i]).length >= 3

\* C2: the tree read back from the bits of T.encode has as many nodes as T,
\* the same pre-order topology with the same character at every leaf, the same
\* characters with a leaf and the same HuffmanCode for each of them; all its
\* frequencies are 0.
C2_TreeRoundtrip ==
    Deserialized =>
        /\ size(d_nodes) = size(nodes)
        /\ PreOrder(d_nodes, d_root) = PreOrder(nodes, root)
        /\ DOMAIN d_leaves = DOMAIN leaves
        /\ \A ch \in DOMAIN leaves :
              HuffmanTree_at(d_nodes, d_leaves, ch) = HuffmanTree_at(nodes, leaves, ch)
        /\ \A v \in DOMAIN d_nodes : d_nodes[v].freq = 0

C2_Witness ==
    /\ Deserialized
    /\ size(d_nodes) >= 7
    /\ \E v \in DOMAIN nodes : nodes[v].freq > 1
    /\ \E ch \in DOMAIN d_leaves : HuffmanTree_at(d_nodes, d_leaves, ch).length >= 3

\* the decode calls made so far returned the values written, and each consumed
\* exactly the bits its encode call wrote
CodecRoundtrip ==
    /\ pc # "assert_failed"
    /\ \A i \in DOMAIN results :
          /\ results[i] = jobs[i].x
          /\ src_marks[i] = marks[i]

\* C3 as stated: values written back-to-back, each by one of the universal
\* codecs under a universe that contains it, are all written and are read back
\* in order by the same codecs, every decode call consuming exactly the bits
\* its encode call wrote.
C3_AnyValueOfTheUniverse ==
    (\A i \in DOMAIN jobs : jobs[i].u.min <= jobs[i].x /\ jobs[i].x <= jobs[i].u.max)
        => CodecRoundtrip

\* the value of an encode call is the largest unsigned integer above u.min
RelativeValueIsMax(j) == U(j.x - j.u.min) = UINTMAX_MAX

\* the codecs that write the relative value plus 1
WritesSuccessor(j) ==
    \/ j.codec.name \in {"EliasGamma", "EliasDelta"}
    \/ (j.codec.name = "Rice" /\ j.codec.p = 0)

\* C3, amended: the same, for values of the universe other than those that lie
\* MAX_UINT above u.min when the codec is Elias-gamma, Elias-delta or Rice with
\* exponent 0.
C3_UniversalRoundtrip ==
    (\A i \in DOMAIN jobs :
        /\ jobs[i].u.min <= jobs[i].x /\ jobs[i].x <= jobs[i].u.max
        /\ ~(WritesSuccessor(jobs[i]) /\ RelativeValueIsMax(jobs[i])))
        => CodecRoundtrip

C3_Witness ==
    /\ pc = "codec_read"
    /\ Len(results) = 2
    /\ jobs[1].codec.name = "EliasDelta"
    /\ jobs[2].codec.name = "Vbyte"
    /\ jobs[1].x = 29
    /\ jobs[2].x = UINTMAX_MAX
    /\ marks[1] < marks[2]

\* C4: a tree built a second time from an input with the same histogram gives
\* every character the code the first tree gave it.
C4_SameCodesWhenBuiltTwice ==
    (pc = "built" /\ first_codes.built) => Codes = first_codes.codes

\* the queue before the two pops of the last iteration of the build loop
QueueBeforePops == (queue \ {nodes[r].parent}) \cup {r, l}

\* the ordering of C5: lower frequency first, a leaf before an inner node of the
\* same frequency, the smaller character first among leaves
LeafFirst(a, b) ==
    \/ nodes[a].freq < nodes[b].freq
    \/ (nodes[a].freq = nodes[b].freq /\ a \in Leaves(nodes) /\ b \notin Leaves(nodes))
    \/ (nodes[a].freq = nodes[b].freq /\ a \in Leaves(nodes) /\ b \in Leaves(nodes)
            /\ CharValue(nodes[a].c) < CharValue(nodes[b].c))

\* the same with an inner node before a leaf of the same frequency
InnerFirst(a, b) ==
    \/ nodes[a].freq < nodes[b].freq
    \/ (nodes[a].freq = nodes[b].freq /\ a \notin Leaves(nodes) /\ b \in Leaves(nodes))
    \/ (nodes[a].freq = nodes[b].freq /\ a \in Leaves(nodes) /\ b \in Leaves(nodes)
            /\ CharValue(nodes[a].c) < CharValue(nodes[b].c))

C6_TestTreeCodes ==
    /\ pc # "assert_failed"
    /\ Built =>
          /\ size(nodes) = 15
          /\ nodes[root].freq = 35
          /\ HuffmanTree_at(nodes, leaves, 115) = HuffmanCode(3, 2)
          /\ HuffmanTree_at(nodes, leaves, 116) = HuffmanCode(1, 2)
          /\ HuffmanTree_at(nodes, leaves, 117) = HuffmanCode(0, 3)
          /\ HuffmanTree_at(nodes, leaves, 118) = HuffmanCode(2, 3)
          /\ HuffmanTree_at(nodes, leaves, 119) = HuffmanCode(6, 3)
          /\ HuffmanTree_at(nodes, leaves, 120) = HuffmanCode(4, 4)
          /\ HuffmanTree_at(nodes, leaves, 121) = HuffmanCode(12, 5)
          /\ HuffmanTree_at(nodes, leaves, 122) = HuffmanCode(28, 5)

C6_Witness == pc = "built" /\ input = TestInput /\ root # 0 /\ DOMAIN leaves = 115..122

\* the bits of a sequence of encode calls on an empty sink
BitsOf(uchars, u) == Flatten([i \in DOMAIN uchars |-> Binary_encode_u(<< >>, uchars[i], u)])

TopologyDigits == <<1, 1, 0, 1, 1, 0, 1, 1, 0, 1, 0, 1, 0, 0, 0>>

\* C8 as stated: the first 15 bits written for the test tree are the digits
\* 110110110101000, the leftmost digit being the bit written first.
C8_TopologyFirstBitFirst ==
    (pc \in {"encode", "decode"} /\ root # 0) => SubSeq(sink, 1, 15) = TopologyDigits

\* C8, amended: the first 15 bits written for the test tree are the digits
\* 110110110101000 with the rightmost digit written first (the digits are the
\* binary numeral of the 15 bits read as one integer, first bit least
\* significant); in the order written the topology is 000101011011011.
C8_TopologyLastDigitFirst ==
    (pc \in {"encode", "decode"} /\ root # 0) =>
        /\ SubSeq(sink, 1, 15) = Reverse(TopologyDigits)
        /\ SubSeq(sink, 1, 15) = <<0, 0, 0, 1, 0, 1, 0, 1, 1, 0, 1, 1, 0, 1, 1>>

C8_Witness == pc = "encode" /\ input = TestInput /\ tree_bits > 15 /\ size(nodes) = 15

\* every leaf's code leads from the root rt to that leaf
CodeIsPath(T, rt) ==
    \A v \in Leaves(T) :
        LET code == Node_code(T, v)
        IN  /\ code.length = Depth(T, v)
            /\ code.word < Pow2(code.length)
            /\ Descend(T, rt, code.word, code.length) = v

\* C9: in a constructed and in a deserialized tree the code of every leaf has
\* the leaf's depth as its length, and following from the root the edges its
\* word names (bit i - 1 for the i-th edge, 1 for the right child) ends at
\* that leaf; the word has no bits beyond its length.
C9_CodeIsRootToLeafPath ==
    /\ Built => CodeIsPath(nodes, root)
    /\ Deserialized => CodeIsPath(d_nodes, d_root)

C9_Witness ==
    /\ Deserialized
    /\ \E v \in Leaves(d_nodes) :
          /\ Depth(d_nodes, v) = 3
          /\ Node_code(d_nodes, v).word \in {1, 2, 3, 4, 5, 6}

\* the least cost of a full binary tree over the leaves S with the weights w:
\* a single leaf costs nothing, otherwise the leaves are split between the two
\* subtrees of the root and every leaf is one edge deeper
RECURSIVE OptCost(_, _)
OptCost(w, S) ==
    IF Cardinality(S) <= 1 THEN 0
    ELSE LET x == CHOOSE y \in S : TRUE
         IN  Sum(w, S) + MinOf({OptCost(w, A) + OptCost(w, S \ A) :
                                   A \in {B \in SUBSET S : x \in B /\ B # S}})

\* C10: the constructed tree minimises the sum over the leaves of frequency
\* times depth among the full binary trees over the same leaves.
C10_MinimalWeightedDepth ==
    /\ Len(input) > 0 => pc # "assert_failed"
    /\ Built =>
          LET w == [v \in Leaves(nodes) |-> nodes[v].freq]
          IN  Sum([v \in Leaves(nodes) |-> nodes[v].freq * Depth(nodes, v)], Leaves(nodes))
                  = OptCost(w, Leaves(nodes))

C10_Witness ==
    /\ pc = "built"
    /\ Cardinality(Leaves(nodes)) = 4
    /\ \E v \in Leaves(nodes) : Depth(nodes, v) = 1 /\ nodes[v].freq = 4
    /\ \E v \in Leaves(nodes) : Depth(nodes, v) = 3 /\ nodes[v].freq = 2

\* s is a prefix of t (s = t included)
IsPrefix(s, t) == Len(s) <= Len(t) /\ SubSeq(t, 1, Len(s)) = s

\* the values a codec is meant for: Elias-gamma and Elias-delta encode x >= 1,
\* Binary with a width the values that fit in it
Legal(cd, x) ==
    CASE cd.name \in {"EliasGamma", "EliasDelta"} -> x >= 1
      [] cd.name = "Binary" -> x < Pow2(cd.p)
      [] OTHER -> TRUE

\* the bits of a codeword in the order Huffman::encode writes them
CodewordBits(code) == [i \in 1..code.length |-> BitOf(code.word, i - 1)]

\* no codeword of the tree is a prefix of the codeword of another character
PrefixFreeTree(T, lv) ==
    \A c1 \in DOMAIN lv : \A c2 \in DOMAIN lv \ {c1} :
        ~IsPrefix(CodewordBits(HuffmanTree_at(T, lv, c1)),
                  CodewordBits(HuffmanTree_at(T, lv, c2)))

\* the two values have been written
Written == pc \in {"word_read", "word_done"}

\* C11: for one codec with its parameter and two distinct values of its legal
\* domain, the bits written for one value are not a prefix of the bits written
\* for the other; and in a constructed or deserialized Huffman tree no
\* character's codeword is a prefix of another character's codeword.
C11_PrefixFree ==
    /\ (Written /\ value_a # value_b /\ Legal(coder, value_a) /\ Legal(coder, value_b)) =>
          (~IsPrefix(word_a, word_b) /\ ~IsPrefix(word_b, word_a))
    /\ Built => PrefixFreeTree(nodes, leaves)
    /\ Deserialized => PrefixFreeTree(d_nodes, d_leaves)

\* two values whose Elias-gamma codes agree up to the last bit
C11_Witness ==
    /\ Written
    /\ coder.name = "EliasGamma"
    /\ value_a # value_b
    /\ Len(word_a) = Len(word_b)
    /\ Len(word_a) >= 5
    /\ SubSeq(word_a, 1, Len(word_a) - 1) = SubSeq(word_b, 1, Len(word_b) - 1)

\* the number of distinct characters of the input
Sigma == Cardinality({input[i] : i \in DOMAIN input})

\* C12 as stated: a constructed tree has sigma leaves, and 2 * sigma - 1 nodes
\* for sigma >= 2 and one node for sigma = 1.
C12_OneNodeForOneCharacter ==
    Built =>
        /\ Cardinality(Leaves(nodes)) = Sigma
        /\ size(nodes) = IF Sigma >= 2 THEN 2 * Sigma - 1 ELSE 1

\* the number of histogram entries after the one-character fix-up
SigmaAfterFixup == IF Sigma = 1 THEN 2 ELSE Sigma

\* C12, amended: a constructed tree has one leaf per histogram entry after the
\* one-character fix-up, that is sigma leaves for sigma >= 2 and two leaves (the
\* character and its zero-frequency companion) for sigma = 1; its node count is
\* twice the number of leaves minus 1: 2 * sigma - 1 for sigma >= 2 and 3 for
\* sigma = 1.
C12_LeavesAndNodes ==
    Built =>
        /\ Cardinality(Leaves(nodes)) = SigmaAfterFixup
        /\ Cardinality(DOMAIN leaves) = SigmaAfterFixup
        /\ size(nodes) = 2 * SigmaAfterFixup - 1
        /\ size(nodes) = IF Sigma >= 2 THEN 2 * Sigma - 1 ELSE 3

C12_Witness ==
    /\ pc = "built"
    /\ Sigma = 1
    /\ Len(input) >= 2
    /\ size(nodes) = 3
    /\ \E v \in Leaves(nodes) : nodes[v].freq = 0

\* the tree T with the root rt is a full binary tree with consistent links
\* and frequencies
WellFormed(T, rt) ==
    /\ rt \in DOMAIN T
    /\ T[rt].parent = 0
    /\ \A v \in DOMAIN T : (T[v].left = 0) <=> (T[v].right = 0)
    /\ \A v \in DOMAIN T \ {rt} :
          /\ T[v].parent \in DOMAIN T
          /\ (T[T[v].parent].left = v) # (T[T[v].parent].right = v)
    /\ \A v \in DOMAIN T \ Leaves(T) :
          /\ T[v].left \in DOMAIN T
          /\ T[v].right \in DOMAIN T
          /\ T[v].left # T[v].right
          /\ T[v].freq = T[T[v].left].freq + T[T[v].right].freq

\* C13: in a constructed and in a deserialized tree every node has no child or
\* two children, the root has no parent, every other node is the left or the
\* right child of its parent, and the frequency of an inner node is the sum of
\* the frequencies of its children; the root of a constructed tree has the
\* length of the input as its frequency.
C13_FullTreeWithSummedFrequencies ==
    /\ Built => (WellFormed(nodes, root) /\ nodes[root].freq = Len(input))
    /\ Deserialized => WellFormed(d_nodes, d_root)

C13_Witness ==
    /\ Deserialized
    /\ size(d_nodes) = 7
    /\ nodes[root].freq >= 5
    /\ \E v \in DOMAIN nodes \ (Leaves(nodes) \cup {root}) :
          nodes[v].freq >= 2 /\ nodes[nodes[v].parent].right = v

\* C14: for every character of the tree's alphabet, indexing tree.table() the
\* way Huffman::encode does (the character converted to uintmax_t) delivers the
\* code the tree's operator[] delivers for the same index, and an input
\* written through the table is read back by the deserialized tree.
C14_TableAgreesWithTree ==
    /\ pc # "crashed"
    /\ Built =>
          \A ch \in DOMAIN leaves :
              table_at(HuffmanTree_table(nodes, leaves), CharToUintmax(ch))
                  = {HuffmanTree_at(nodes, leaves, ToChar(CharToUintmax(ch)))}
    /\ (Deserialized /\ Len(decoded) = Len(input)) => decoded = input

\* C15: the tree constructed from the empty input has no root, no node and
\* no leaf; tree.encode(sink) writes the single bit 1; the tree read from that
\* stream has no root, no node and no leaf, and reading it consumes one bit.
C15_EmptyTree ==
    Len(input) = 0 =>
        /\ pc # "assert_failed"
        /\ pc \in {"built", "encode", "decode"} =>
              (root = 0 /\ size(nodes) = 0 /\ DOMAIN leaves = {})
        /\ pc \in {"encode", "decode"} => (sink = <<1>> /\ tree_bits = 1)
        /\ pc = "decode" =>
              (d_root = 0 /\ size(d_nodes) = 0 /\ DOMAIN d_leaves = {} /\ src_pos = 1)

C15_Witness ==
    /\ Len(input) = 0
    /\ pc = "decode"
    /\ sink = <<1>>
    /\ src_pos = 1
    /\ d_root = 0

\* n one-bits
Ones(n) == [i \in 1..n |-> 1]

\* the low n bits of x, bit 0 first
LowBits(x, n) == [i \in 1..n |-> BitOf(x, i - 1)]

\* bitlen(x)
BitLen(x) == CHOOSE n \in 0..UINTMAX_BITS : (x < Pow2(n)) /\ (n = 0 \/ x >= Pow2(n - 1))

\* C16: for x >= 1 EliasGamma::encode is accepted and writes m one-bits and a
\* zero-bit (the unary code of m = bitlen(x) - 1) and then the low m bits of
\* x, 2 * bitlen(x) - 1 bits in all; EliasGamma::decode on these bits returns x
\* and consumes all of them.
C16_GammaLayout ==
    (coder.name = "EliasGamma" /\ value_a >= 1) =>
        /\ pc # "assert_failed"
        /\ Written =>
              /\ word_a = Ones(BitLen(value_a) - 1) \o <<0>>
                              \o LowBits(value_a, BitLen(value_a) - 1)
              /\ Len(word_a) = 2 * BitLen(value_a) - 1
        /\ pc = "word_done" => (read_a.val = value_a /\ read_a.pos = Len(word_a))

C16_Witness ==
    /\ pc = "word_done"
    /\ coder.name = "EliasGamma"
    /\ value_a = UINTMAX_MAX - 1
    /\ read_a.val = value_a
    /\ Len(word_a) = 2 * UINTMAX_BITS - 1

\* the bits Elias-gamma has for x >= 1
GammaBits(x) == Ones(BitLen(x) - 1) \o <<0>> \o LowBits(x, BitLen(x) - 1)

\* C17: EliasGamma::encode(sink, x, u) with u.rel(x) <= MAX_UINT - 1 is accepted
\* and writes the Elias-gamma code of u.rel(x) + 1, and EliasGamma::decode(src, u)
\* returns x from these bits; with u.rel(x) = MAX_UINT the assertion fails and
\* nothing is written.
C17_GammaUnderUniverse ==
    (Len(jobs) = 1 /\ jobs[1].codec.name = "EliasGamma") =>
        LET rel == (jobs[1].x - jobs[1].u.min) % Pow2(UINTMAX_BITS)
        IN  IF rel = UINTMAX_MAX
            THEN pc = "assert_failed" /\ sink = << >> /\ marks = << >>
            ELSE /\ pc # "assert_failed"
                 /\ sink = GammaBits(rel + 1)
                 /\ marks = <<Len(sink)>>
                 /\ Len(results) = 1 => (results[1] = jobs[1].x /\ src_pos = Len(sink))

\* the largest relative value accepted, under a universe with a minimum above 0
C17_Witness ==
    /\ pc = "codec_read"
    /\ Len(results) = 1
    /\ jobs[1].codec.name = "EliasGamma"
    /\ jobs[1].u.min > 0
    /\ (jobs[1].x - jobs[1].u.min) % Pow2(UINTMAX_BITS) = UINTMAX_MAX - 1
    /\ results[1] = jobs[1].x

\* C18: Unary::encode writes x one-bits and then a zero-bit, x + 1 bits in
\* all, also for x of the word width and above, where the one-bits leave in
\* several writes; Unary::decode returns x from these bits and consumes all of
\* them, the zero-bit included.
C18_UnaryLayout ==
    coder.name = "Unary" =>
        /\ pc # "assert_failed"
        /\ Written => (word_a = Ones(value_a) \o <<0>> /\ Len(word_a) = value_a + 1)
        /\ pc = "word_done" => (read_a.val = value_a /\ read_a.pos = value_a + 1)

\* a value of more than two words of one-bits
C18_Witness ==
    /\ pc = "word_done"
    /\ coder.name = "Unary"
    /\ value_a > 2 * UINTMAX_BITS
    /\ read_a.val = value_a
    /\ Len(word_a) = value_a + 1

\* Rice::encode on value_a: the bits written are the Elias-gamma code of the
\* quotient plus 1 and then the low p bits; reading them with EliasGamma::decode
\* and Binary::decode gives the quotient plus 1 and the remainder; Rice::decode
\* returns the value and consumes all the bits
RiceDecomposition ==
    LET q == value_a \div Pow2(coder.p)
        g == EliasGamma_decode(word_a, 0)
    IN  /\ pc # "assert_failed"
        /\ Written =>
              /\ word_a = GammaBits(q + 1) \o LowBits(value_a, coder.p)
              /\ g.val - 1 = q
              /\ Binary_decode(word_a, g.pos, coder.p).val = value_a % Pow2(coder.p)
        /\ pc = "word_done" => (read_a.val = value_a /\ read_a.pos = Len(word_a))

C20_Rice63InSevenBits ==
    (coder = [name |-> "Rice", p |-> 5] /\ value_a = 63) =>
        /\ pc # "assert_failed"
        /\ Written => (word_a = <<1, 0, 1, 1, 1, 1, 1>> /\ Len(word_a) = 7)
        /\ pc = "word_done" => read_a.val = 63

\* C20, amended: Rice with exponent 5 writes 63 as the three bits 100 of
\* gamma(2) (the unary code 10 of 1, then the low bit 0 of 2) and the five
\* bits 11111 of the remainder, 8 bits in all, and decoding them returns 63.
C20_Rice63InEightBits ==
    (coder = [name |-> "Rice", p |-> 5] /\ value_a = 63) =>
        /\ pc # "assert_failed"
        /\ Written => (word_a = <<1, 0, 0, 1, 1, 1, 1, 1>> /\ Len(word_a) = 8)
        /\ pc = "word_done" => (read_a.val = 63 /\ read_a.pos = 8)

C20_Witness ==
    /\ pc = "word_done"
    /\ coder = [name |-> "Rice", p |-> 5]
    /\ value_a = 63
    /\ read_a = [val |-> 63, pos |-> 8]

\* the number of blocks of b bits of x: max(1, ceil(bitlen(x) / b))
Blocks(x, b) == Max2(1, (BitLen(x) + b - 1) \div b)

\* C21: for every x and every block size b, Vbyte::encode writes
\* k = max(1, ceil(bitlen(x) / b)) groups of b + 1 bits, the block of the low
\* bits first; each group is a flag bit followed by its block of b bits; the
\* flag is 0 on every group except the last and 1 on the last;
\* Vbyte::decode(src, b) on these bits returns x and consumes all of them.
C21_VbyteGroups ==
    coder.name = "Vbyte" =>
        LET b == coder.p
            k == Blocks(value_a, b)
        IN  /\ pc # "assert_failed"
            /\ Written =>
                  /\ Len(word_a) = k * (b + 1)
                  /\ \A g \in 0..(k - 1) :
                        /\ word_a[g * (b + 1) + 1] = (IF g = k - 1 THEN 1 ELSE 0)
                        /\ SubSeq(word_a, g * (b + 1) + 2, (g + 1) * (b + 1))
                               = LowBits(value_a \div Pow2(g * b), b)
            /\ pc = "word_done" => (read_a.val = value_a /\ read_a.pos = Len(word_a))

C21_Witness ==
    /\ pc = "word_done"
    /\ coder = [name |-> "Vbyte", p |-> 3]
    /\ value_a = 64
    /\ word_a = <<0, 0, 0, 0, 0, 0, 0, 0, 1, 1, 0, 0>>
    /\ read_a = [val |-> 64, pos |-> 12]

\* ceil(log2(n)) for n >= 1
CeilLog2(n) == CHOOSE k \in 0..(UINTMAX_BITS + 1) : Pow2(k) >= n /\ (k = 0 \/ Pow2(k - 1) < n)

\* the universe constructed from (min, max), min <= max, has entropy
\* max(1, ceil(log2(max - min + 1))); binary() has entropy 1; of<uN>() has
\* entropy N
EntropyOfConstructed ==
    pc = "universe_done" =>
        LET call == calls[1]
        IN  /\ (call.f = "Universe" /\ call.a <= call.b) =>
                  univ = [min |-> call.a, max |-> call.b,
                          entropy |-> Max2(1, CeilLog2(call.b - call.a + 1))]
            /\ call.f = "binary" => univ = [min |-> 0, max |-> 1, entropy |-> 1]
            /\ call.f = "of" => (univ.entropy = call.a /\ univ.max = Pow2(call.a) - 1)

\* with_entropy(k) is the universe (0, 2^k - 1) with entropy k
WithEntropy(k) == univ = [min |-> 0, max |-> Pow2(k) - 1, entropy |-> k]

\* C22: a universe constructed from (min, max) with min <= max has entropy
\* max(1, ceil(log2(max - min + 1))); binary() has entropy 1, of<uN>() has
\* entropy N, and with_entropy(k) is the universe (0, 2^k - 1) with entropy k,
\* for every k.
C22_EntropyAnyK ==
    /\ EntropyOfConstructed
    /\ (pc = "universe_done" /\ calls[1].f = "with_entropy") => WithEntropy(calls[1].a)

\* what does hold: the same, with with_entropy(k) taken for 1 <= k <= the
\* word width only (with_entropy(0) shifts UINTMAX_MAX by the whole width)
EntropyWhereDefined ==
    /\ EntropyOfConstructed
    /\ (pc = "universe_done" /\ calls[1].f = "with_entropy" /\ calls[1].a >= 1
            /\ calls[1].a <= UINTMAX_BITS)
          => WithEntropy(calls[1].a)

C22_Witness ==
    /\ pc = "universe_done"
    /\ calls = <<[f |-> "Universe", a |-> 3, b |-> 40]>>
    /\ univ = [min |-> 3, max |-> 40, entropy |-> 6]

\* x of the universe [a, b] is written as the low n bits of x - a, and
\* Binary::decode(src, u) returns x from them
BinaryUnderUniverse(n) ==
    /\ pc # "assert_failed"
    /\ sink = LowBits(jobs[1].x - jobs[1].u.min, n)
    /\ marks = <<n>>
    /\ Len(results) = 1 => (results[1] = jobs[1].x /\ src_pos = n)

Contained == {calls[i].a : i \in {k \in 1..Len(calls) : calls[k].f = "contain"}}

\* C24: a Range starts as (MAX_UINT, 0); after a non-empty sequence S of
\* contain calls min() is the least and max() the greatest value of S, so
\* min <= v <= max for every contained v and min <= max; reading min() and
\* max() returns these bounds and changes nothing.
C24_RangeBounds ==
    pc = "range" =>
        /\ IF Contained = {}
           THEN range = [min |-> UINTMAX_MAX, max |-> 0]
           ELSE /\ range = [min |-> MinOf(Contained), max |-> MaxOf(Contained)]
                /\ \A v \in Contained : range.min <= v /\ v <= range.max
                /\ range.min <= range.max
        /\ (calls # << >> /\ calls[Len(calls)].f = "read") => obs = range

C24_Witness ==
    /\ pc = "range"
    /\ calls = <<[f |-> "contain", a |-> 5, b |-> 0], [f |-> "read", a |-> 0, b |-> 0],
                 [f |-> "contain", a |-> 1, b |-> 0]>>
    /\ range = [min |-> 1, max |-> 5]
    /\ obs = [min |-> 5, max |-> 5]

\* the items that were the argument of a count or set call
Considered == {calls[i].a : i \in {k \in 1..Len(calls) : calls[k].f \in {"count", "set"}}}

\* the value of the last set(item, n) of the calls, plus all times counted
\* since then; 0 for an item never considered
RECURSIVE Counted(_, _)
Counted(log, item) ==
    IF log = << >> THEN 0
    ELSE LET e    == log[Len(log)]
             rest == SubSeq(log, 1, Len(log) - 1)
         IN  IF e.a = item /\ e.f = "set" THEN e.b
             ELSE IF e.a = item /\ e.f = "count" THEN Counted(rest, item) + e.b
             ELSE Counted(rest, item)

\* contains, size and the reads of a Counter after the calls made; count(n)
\* is the count expected of the item's tally n
CounterAfterCalls(count(_)) ==
    pc = "counter" =>
        /\ \A item \in {97, 98, 99} :
              /\ Counter_contains(count_, item) <=> item \in Considered
              /\ Counter_at(count_, item) = count(Counted(calls, item))
        /\ Counter_size(count_) = Cardinality(Considered)
        /\ (calls # << >> /\ calls[Len(calls)].f = "read") =>
              LET item == calls[Len(calls)].a
              IN  obs = [c |-> item, at |-> count(Counted(calls, item)),
                         contains |-> item \in Considered,
                         size |-> Cardinality(Considered)]

\* the tally itself
Tally(n) == n

\* the tally in size_t
TallyInSizeT(n) == n % Pow2(UINTMAX_BITS)

\* C25 as stated: contains(c) iff c was the argument of a count or set call;
\* operator[](c) is the value of the last set plus all times counted since;
\* size() is the number of considered items; reads add no entry.
C25_CountIsTally == CounterAfterCalls(Tally)

\* C25, amended: the same, with operator[](c) being the value of the last set
\* plus all times counted since then modulo 2^W, W the width of size_t: the
\* addition in count wraps.
C25_CountIsTallyInSizeT == CounterAfterCalls(TallyInSizeT)

\* an item set to 0 is contained, an item only read is not
C25_Witness ==
    /\ pc = "counter"
    /\ calls = <<[f |-> "set", a |-> 97, b |-> 0], [f |-> "count", a |-> 98, b |-> 2],
                 [f |-> "count", a |-> 98, b |-> 1], [f |-> "read", a |-> 97, b |-> 0]>>
    /\ obs = [c |-> 97, at |-> 0, contains |-> TRUE, size |-> 2]
    /\ Counter_at(count_, 98) = 3
    /\ ~Counter_contains(count_, 99)

\* every pointer recorded in the arena T, the root rt and the leaf map lv
\* denotes a node of the arena
PointersValid(T, rt, lv) ==
    /\ rt \in DOMAIN T \cup {0}
    /\ \A ch \in DOMAIN lv : lv[ch] \in DOMAIN T
    /\ \A v \in DOMAIN T :
          /\ T[v].parent \in DOMAIN T \cup {0}
          /\ T[v].left \in DOMAIN T \cup {0}
          /\ T[v].right \in DOMAIN T \cup {0}

\* C26: at every point of the construction the arena holds at most the
\* 2 * sigma nodes reserved before the first node was created, and the
\* deserialized arena holds at most as many nodes as there are topology bits,
\* the capacity reserved before decode_node; so the arena never grows beyond
\* its reserve, and every parent, child, root, queue and leaf pointer denotes
\* a node of the arena.
C26_ArenaWithinReserve ==
    /\ size(nodes) <= reserved_for_histogram(histogram)
    /\ PointersValid(nodes, root, leaves)
    /\ queue \subseteq DOMAIN nodes
    /\ pc = "decode" =>
          /\ size(d_nodes) <= reserved_for_topology(HuffmanTree_decode(sink, 0).topology)
          /\ PointersValid(d_nodes, d_root, d_leaves)

C26_Witness ==
    /\ pc = "decode"
    /\ size(nodes) = 5
    /\ reserved_for_histogram(histogram) = 6
    /\ size(d_nodes) = 5
    /\ Len(HuffmanTree_decode(sink, 0).topology) = 5

\* the inner nodes of the tree under construction
InnerNodes == DOMAIN nodes \ Leaves(nodes)

SingleCharacter == input # << >> /\ \A i \in DOMAIN input : input[i] = input[1]

\* C28: the tree constructed from n >= 1 copies of one character c has three
\* nodes: a root of frequency n, whose left child is the leaf of c and whose
\* right child is the leaf of ~c, of frequency 0; the code of c is (word 0,
\* length 1), the code of ~c is (word 1, length 1), and each occurrence of c is
\* written as one bit.
C28_SingleCharacterTree ==
    SingleCharacter =>
        /\ pc # "assert_failed"
        /\ Built =>
              /\ size(nodes) = 3
              /\ nodes[root].freq = Len(input)
              /\ DOMAIN leaves = {input[1], CharNot(input[1])}
              /\ nodes[root].left = leaves[input[1]]
              /\ nodes[root].right = leaves[CharNot(input[1])]
              /\ is_leaf(nodes, nodes[root].left) /\ is_leaf(nodes, nodes[root].right)
              /\ nodes[nodes[root].left].freq = Len(input)
              /\ nodes[nodes[root].right].freq = 0
              /\ HuffmanTree_at(nodes, leaves, input[1]) = HuffmanCode(0, 1)
              /\ HuffmanTree_at(nodes, leaves, CharNot(input[1])) = HuffmanCode(1, 1)
        /\ pc \in {"encode", "decode"} =>
              SubSeq(sink, tree_bits + 1, Len(sink)) = [i \in 1..enc_i |-> 0]

C28_Witness ==
    /\ pc = "encode"
    /\ input = <<255, 255, 255>>
    /\ enc_i = 3
    /\ nodes[root].freq = 3
    /\ nodes[nodes[root].right].c = 0
    /\ Len(sink) = tree_bits + 3

\* C29: for a character without a leaf in the tree operator[] returns the
\* code (word 0, length 0), and Huffman::encode with this character writes no
\* bit: the sink is as it was before the call, and nothing fails.
C29_UnknownCharacterWritesNothing ==
    (pc = "encoded_any" /\ calls[1].a \notin DOMAIN leaves) =>
        /\ HuffmanTree_at(nodes, leaves, calls[1].a) = HuffmanCode(0, 0)
        /\ sink = calls[1].b

\* a character that is not in the input, after the tree and one input
\* character were written
C29_Witness ==
    /\ pc = "encoded_any"
    /\ input = <<97, 98>>
    /\ enc_i = 1
    /\ calls[1].a = 255
    /\ 255 \notin DOMAIN leaves
    /\ sink = calls[1].b
    /\ Len(sink) = tree_bits + 1

\* Rice with the exponent p round-trips x
RiceRoundtrip(x, p) ==
    LET bits == Rice_encode(<< >>, x, p)
    IN  Rice_decode(bits, 0, p) = [val |-> x, pos |-> Len(bits)]

\* C30: for an exponent 1 <= p < W the value Rice::encode passes to
\* EliasGamma::encode, (x >> p) + 1, is not 0 for any x of W bits, the encode
\* call is accepted and decoding returns x; for p = 0 the value passed is not
\* 0 exactly for x < MAX_UINT, and exactly these x are accepted.
C30_RiceQuotientNeverWraps ==
    coder.name = "Rice" =>
        /\ coder.p >= 1 =>
              /\ Rice_quotient_plus_1(value_a, coder.p) # 0
              /\ pc # "assert_failed"
              /\ pc = "word_done" => read_a = [val |-> value_a, pos |-> Len(word_a)]
              /\ (pc = "word_done" /\ value_a = 0 /\ value_b = 0) =>
                    \A x \in 0..UINTMAX_MAX :
                        Rice_quotient_plus_1(x, coder.p) # 0 /\ RiceRoundtrip(x, coder.p)
        /\ coder.p = 0 =>
              /\ (Rice_quotient_plus_1(value_a, 0) # 0) <=> (value_a < UINTMAX_MAX)
              /\ value_a = UINTMAX_MAX => pc \in {"word_write", "assert_failed"}
              /\ value_a < UINTMAX_MAX =>
                    /\ pc # "assert_failed"
                    /\ pc = "word_done" => read_a = [val |-> value_a, pos |-> Len(word_a)]
              /\ (pc = "word_done" /\ value_a = 0 /\ value_b = 0) =>
                    \A x \in 0..UINTMAX_MAX :
                        (Rice_quotient_plus_1(x, 0) # 0) <=> (x < UINTMAX_MAX)

\* the largest value under the smallest exponent above 0
C30_Witness ==
    /\ pc = "word_done"
    /\ coder = [name |-> "Rice", p |-> 1]
    /\ value_a = UINTMAX_MAX
    /\ Rice_quotient_plus_1(value_a, 1) = Pow2(UINTMAX_BITS - 1)
    /\ read_a.val = UINTMAX_MAX

====
